---- MODULE Spec2Model ----
(***************************************************************************)
(* agent-lease: the lock/lease gate.                                       *)
(*                                                                         *)
(* State: the lock directory (lock files by path), the proof directory,    *)
(* the audit directory, the revision HEAD points at, the loaded            *)
(* configuration, the clock, and the outcome of the last CLI invocation.   *)
(* One action per CLI command (lease, release, clear) plus the git commit  *)
(* that moves HEAD.                                                        *)
(* Where invocations run concurrently, running holds the position of each  *)
(* one between its file operations.                                        *)
(*                                                                         *)
(* Text is modelled as sequences of tokens: a runner name and a status     *)
(* are sequences of one-letter strings (so that case conversion is         *)
(* computed letter by letter), a file name is the sequence of the pieces   *)
(* the template literal concatenates, a lock file is the sequence of its   *)
(* KEY=VALUE lines, a proof text is the sequence of its lines.             *)
(***************************************************************************)
EXTENDS Integers, Sequences, FiniteSets, TLC

VARIABLES files, proofs, audit, last, now, head, config, cwd, env, libcall, running

vars == <<files, proofs, audit, last, now, head, config, cwd, env, libcall, running>>

----------------------------------------------------------------------------
(* Bounds *)

\* number of CLI invocations in a behaviour of Spec
MaxClock == 3
\* number of commits that move HEAD in a behaviour of Spec
MaxCommits == 1
\* number of lines of a proof text in SpecProof
MaxProofLines == 4

----------------------------------------------------------------------------
(* Helpers on sequences *)

Range(s) == {s[i] : i \in DOMAIN s}

RECURSIVE SelectIdx(_, _, _)
\* the subsequence of s whose elements satisfy Test (Array.prototype.filter)
SelectIdx(s, i, keep) ==
  IF i > Len(s) THEN <<>>
  ELSE (IF s[i] \in keep THEN <<s[i]>> ELSE <<>>) \o SelectIdx(s, i + 1, keep)

Filter(s, keep) == SelectIdx(s, 1, keep)

\* String.prototype.startsWith on token sequences
StartsWith(s, p) == Len(s) >= Len(p) /\ SubSeq(s, 1, Len(p)) = p

\* String.prototype.endsWith on token sequences
EndsWith(s, p) == Len(s) >= Len(p) /\ SubSeq(s, Len(s) - Len(p) + 1, Len(s)) = p

\* String.prototype.includes on token sequences
Includes(s, p) ==
  \E i \in 1..(Len(s) + 1) : i + Len(p) - 1 <= Len(s) /\ SubSeq(s, i, i + Len(p) - 1) = p

----------------------------------------------------------------------------
(* Letter case *)

LowerLetters == <<"a", "b", "c", "f", "i", "l", "p", "s">>
UpperLetters == <<"A", "B", "C", "F", "I", "L", "P", "S">>

toLowerCaseCh(c) ==
  IF \E i \in DOMAIN UpperLetters : UpperLetters[i] = c
  THEN LowerLetters[CHOOSE i \in DOMAIN UpperLetters : UpperLetters[i] = c]
  ELSE c

toUpperCaseCh(c) ==
  IF \E i \in DOMAIN LowerLetters : LowerLetters[i] = c
  THEN UpperLetters[CHOOSE i \in DOMAIN LowerLetters : LowerLetters[i] = c]
  ELSE c

toLowerCase(s) == [i \in DOMAIN s |-> toLowerCaseCh(s[i])]

\* a status kept as written
toUpperCase_asWritten(s) == s

toUpperCase(s) == [i \in DOMAIN s |-> toUpperCaseCh(s[i])]

PASS == <<"P", "A", "S", "S">>
FAIL == <<"F", "A", "I", "L">>

----------------------------------------------------------------------------
(* Configuration: lib/config.js *)

\* a runner entry of the config file; on = "" stands for an absent "on" field
Runner(n, o, l) == [name |-> n, on |-> o, llm |-> l]

\* r.on || 'commit'
OnOf(r) == IF r.on = "" THEN "commit" ELSE r.on

\* the topic names a legacy "on" value migrates to
MigratedTopicsOf(r) ==
  IF OnOf(r) = "both" THEN {"pre-commit", "pre-push"}
  ELSE IF OnOf(r) = "commit" THEN {"pre-commit"}
  ELSE IF OnOf(r) = "push" THEN {"pre-push"}
  ELSE {OnOf(r)}

RECURSIVE NamesFor(_, _, _)
\* the names of the runners that migrate to topic t, in configured order
NamesFor(rs, i, t) ==
  IF i > Len(rs) THEN <<>>
  ELSE (IF t \in MigratedTopicsOf(rs[i]) THEN <<rs[i].name>> ELSE <<>>)
       \o NamesFor(rs, i + 1, t)

\* migrateConfig: a config without topics whose runners use "on" gets a topics
\* mapping built from runners[].on
migrateConfig(c) ==
  IF c.hasTopics THEN c
  ELSE IF ~(\E i \in DOMAIN c.runners : c.runners[i].on # "") THEN c
  ELSE [c EXCEPT !.hasTopics = TRUE,
                 !.topics = [t \in UNION {MigratedTopicsOf(c.runners[i]) : i \in DOMAIN c.runners}
                               |-> NamesFor(c.runners, 1, t)]]

\* the name normalizeRunners gives a runner that has none
Unnamed == <<"unnamed">>

\* normalizeRunners, for a config with a top-level runners array; a name of <<>>
\* stands for an absent name
normalizeRunners(c) ==
  [i \in DOMAIN c.runners |->
     [c.runners[i] EXCEPT !.on = OnOf(c.runners[i]),
                          !.name = IF c.runners[i].name = <<>> THEN Unnamed
                                   ELSE c.runners[i].name]]

\* a worktree: its root directory, the directory's base name, the name in its
\* package.json (empty without one) and the project it is a checkout of
Root(path, base, pkg, proj) == [path |-> path, base |-> base, pkg |-> pkg, proj |-> proj]

\* getProjectName: AGENT_LEASE_PROJECT, else the package name, else the base
\* name of the root
getProjectName(root, e) ==
  IF e["AGENT_LEASE_PROJECT"] # "" THEN <<e["AGENT_LEASE_PROJECT"]>>
  ELSE IF root.pkg # <<>> THEN root.pkg
  ELSE root.base

\* resolveLockDir
resolveLockDir(c, root, e) ==
  LET configLockDir == IF c.lockDir = "" THEN "auto" ELSE c.lockDir
  IN IF e["AGENT_LEASE_LOCK_DIR"] # "" THEN e["AGENT_LEASE_LOCK_DIR"]
     ELSE IF configLockDir = "local" THEN root.path \o "/.agent-lease/locks"
     ELSE IF configLockDir \in {"auto", "xdg"} /\ e["XDG_RUNTIME_DIR"] # ""
     THEN e["XDG_RUNTIME_DIR"] \o "/agent-lease"
     ELSE IF configLockDir \notin {"auto", "xdg"} THEN configLockDir
     ELSE "/tmp"

\* loadConfigChain for the worktree at root under environment e: migrate, name
\* the project, resolve the lock directory, normalise the runners into _runners
loadConfigChain(c, root, e) ==
  LET m == migrateConfig(c)
  IN [projectName |-> IF m.projectName # <<>> THEN m.projectName ELSE getProjectName(root, e),
      lockDir |-> resolveLockDir(m, root, e),
      hasTopics |-> m.hasTopics, topics |-> m.topics,
      runners |-> m.runners, _runners |-> normalizeRunners(m)]

\* the legacy 'on' value of a topic (also the phase the lock is keyed by)
PhaseOf(topic) ==
  IF topic = "pre-commit" THEN "commit"
  ELSE IF topic = "pre-push" THEN "push"
  ELSE topic

\* runners.filter(r => (r.on || 'commit') === phase || ... === 'both')
phaseRunners(runners, phase) ==
  Filter(runners, {r \in Range(runners) : OnOf(r) = phase \/ OnOf(r) = "both"})

\* getRunnersForTopic: the topics mapping when it names the topic, else the
\* legacy 'on' filter
getRunnersForTopic(c, topic) ==
  IF c.hasTopics /\ topic \in DOMAIN c.topics
  THEN Filter(c._runners, {r \in Range(c._runners) : r.name \in Range(c.topics[topic])})
  ELSE phaseRunners(c._runners, PhaseOf(topic))

----------------------------------------------------------------------------
(* Lock store: lib/lock-manager.js *)

\* one KEY=VALUE line of a lock file
Line(k, v) == [k |-> k, v |-> v]

\* the text that marks a lock as validated
MARKER == "AUDIT_PROOF_PASSED"

\* a lock path that leaves the revision out
getLockPath_noHash(projectName, lockDir, phase, shortHash) ==
  [dir |-> lockDir,
   name |-> <<"agent-lease", "-">> \o projectName \o <<"-">>
            \o (IF phase = "push" THEN <<"push", "-">> ELSE <<>>)
            \o <<".lock">>]

\* getLockPath: `agent-lease-${projectName}-${suffix}${shortHash}.lock` in
\* lockDir; only the phase 'push' has a suffix
getLockPath(projectName, lockDir, phase, shortHash) ==
  [dir |-> lockDir,
   name |-> <<"agent-lease", "-">> \o projectName \o <<"-">>
            \o (IF phase = "push" THEN <<"push", "-">> ELSE <<>>)
            \o <<shortHash, ".lock">>]

\* createLock: writes the five lines of a new lock, whatever was there
createLock(fs, projectName, lockDir, phase, shortHash, guid, t) ==
  LET lockPath == getLockPath(projectName, lockDir, phase, shortHash)
      content == << Line("LOCK_GUID", guid),
                    Line("CREATED", <<t>>),
                    Line("PROJECT", projectName),
                    Line("PHASE", <<phase>>),
                    Line("STATUS", <<"PENDING">>) >>
  IN [p \in DOMAIN fs \cup {lockPath} |-> IF p = lockPath THEN content ELSE fs[p]]

\* a lock check that never sees the stamp
includesMarker_never(content) == FALSE

\* content.includes('AUDIT_PROOF_PASSED'): the marker as a key, or inside the
\* project name or the phase written by createLock
includesMarker(content) ==
  \E i \in DOMAIN content :
     \/ content[i].k = MARKER
     \/ content[i].k \in {"PROJECT", "PHASE"} /\ MARKER \in Range(content[i].v)

\* a lock check that never finds the file
checkLock_noFile(fs, projectName, lockDir, phase, shortHash) ==
  [exists |-> FALSE, auditPassed |-> FALSE,
   lockPath |-> getLockPath(projectName, lockDir, phase, shortHash), content |-> <<>>]

\* checkLock
checkLock(fs, projectName, lockDir, phase, shortHash) ==
  LET lockPath == getLockPath(projectName, lockDir, phase, shortHash)
  IN IF lockPath \notin DOMAIN fs
     THEN [exists |-> FALSE, auditPassed |-> FALSE, lockPath |-> lockPath, content |-> <<>>]
     ELSE [exists |-> TRUE, auditPassed |-> includesMarker(fs[lockPath]),
           lockPath |-> lockPath, content |-> fs[lockPath]]

RECURSIVE RunnerLines(_, _)
\* RUNNER_<i>_NAME / _PASSED / _DURATION for the results from index i (0-based) on
RunnerLines(results, i) ==
  IF i >= Len(results) THEN <<>>
  ELSE << Line("RUNNER_" \o ToString(i) \o "_NAME", results[i + 1].name),
          Line("RUNNER_" \o ToString(i) \o "_PASSED", <<results[i + 1].passed>>),
          Line("RUNNER_" \o ToString(i) \o "_DURATION", <<results[i + 1].duration, "ms">>) >>
       \o RunnerLines(results, i + 1)

RECURSIVE SumDuration(_, _)
SumDuration(results, i) ==
  IF i > Len(results) THEN 0 ELSE results[i].duration + SumDuration(results, i + 1)

\* the lines releaseLock appends to the lock file
stampLines(results, phase, shortHash, t) ==
  << Line(MARKER, <<t>>), Line("STATUS", <<"VALIDATED">>) >>
  \o (IF Len(results) > 0
      THEN << Line("RUNNERS_COUNT", <<Len(results)>>) >>
           \o RunnerLines(results, 0)
           \o << Line("GIT_TRAILER_PROOF",
                      [i \in DOMAIN results |-> <<results[i].name, results[i].duration, results[i].hash>>]),
                 Line("GIT_TRAILER_DURATION", <<SumDuration(results, 1)>>) >>
      ELSE <<>>)
  \o (IF \E i \in DOMAIN results : results[i].hasProof
      THEN << Line("GIT_TRAILER_REPORT", <<"commit", shortHash, ".json">>) >>
      ELSE <<>>)

\* the files releaseLock writes under .agent-lease/proofs: one per runner with a
\* non-empty output, and the consolidated report
proofFiles(results, phase, shortHash, t) ==
  IF \E i \in DOMAIN results : results[i].hasProof
  THEN {[file |-> <<results[i].hash, ".txt">>, body |-> <<results[i].output>>] :
           i \in {j \in DOMAIN results : results[j].hasProof /\ results[j].output # ""}}
       \cup {[file |-> <<"commit", shortHash, ".json">>,
              body |-> <<t, phase,
                         [i \in DOMAIN results |->
                            [name |-> results[i].name, passed |-> results[i].passed,
                             duration |-> results[i].duration, hash |-> results[i].hash]]>>]}
  ELSE {}

\* a stamp that writes the lock file when there is none
releaseLock_writesAnyway(fs, pf, projectName, lockDir, results, phase, shortHash, t) ==
  LET lockPath == getLockPath(projectName, lockDir, phase, shortHash)
      written == proofFiles(results, phase, shortHash, t)
      old == IF lockPath \in DOMAIN fs THEN fs[lockPath] ELSE <<>>
  IN [released |-> lockPath \in DOMAIN fs,
      fs |-> [q \in DOMAIN fs \cup {lockPath} |->
                IF q = lockPath THEN old \o stampLines(results, phase, shortHash, t) ELSE fs[q]],
      pf |-> {f \in pf : ~(\E w \in written : w.file = f.file)} \cup written]

\* releaseLock: no lock -> released false, nothing written; else the stamp is
\* appended to the lock file and the proof files are written (overwriting files
\* of the same name)
releaseLock(fs, pf, projectName, lockDir, results, phase, shortHash, t) ==
  LET lockPath == getLockPath(projectName, lockDir, phase, shortHash)
      written == proofFiles(results, phase, shortHash, t)
  IN IF lockPath \notin DOMAIN fs
     THEN [released |-> FALSE, fs |-> fs, pf |-> pf]
     ELSE [released |-> TRUE,
           fs |-> [fs EXCEPT ![lockPath] = @ \o stampLines(results, phase, shortHash, t)],
           pf |-> {f \in pf : ~(\E w \in written : w.file = f.file)} \cup written]

\* getAllLocks: the lock files of the project in lockDir, of one phase when the
\* phase is 'push' or 'commit'
getAllLocks(fs, projectName, lockDir, phase) ==
  LET prefix == <<"agent-lease", "-">> \o projectName \o <<"-">>
      mine == {p \in DOMAIN fs : p.dir = lockDir /\ StartsWith(p.name, prefix)
                                  /\ EndsWith(p.name, <<".lock">>)}
  IN IF phase = "push" THEN {p \in mine : Includes(p.name, <<"-", "push", "-">>)}
     ELSE IF phase = "commit" THEN {p \in mine : ~Includes(p.name, <<"-", "push", "-">>)}
     ELSE mine

\* clearAllLocks
clearAllLocks(fs, projectName, lockDir, phase) ==
  LET locks == getAllLocks(fs, projectName, lockDir, phase)
  IN [cleared |-> Cardinality(locks),
      fs |-> [p \in DOMAIN fs \ locks |-> fs[p]]]

\* an archive that removes the lock and keeps no copy
archiveLock_noCopy(fs, au, projectName, lockDir, phase, shortHash, t) ==
  LET lockPath == getLockPath(projectName, lockDir, phase, shortHash)
  IN IF lockPath \notin DOMAIN fs
     THEN [archived |-> FALSE, archivePath |-> <<>>, fs |-> fs, au |-> au]
     ELSE [archived |-> TRUE,
           archivePath |-> (IF phase = "push" THEN <<"push", "-">> ELSE <<>>) \o <<t, ".lock">>,
           fs |-> [q \in DOMAIN fs \ {lockPath} |-> fs[q]], au |-> au]

\* archiveLock: no lock -> archived false, nothing written; else the lock file
\* is copied to .agent-lease/audit/<phasePrefix><timestamp>.lock (over a file of
\* that name) and removed
archiveLock(fs, au, projectName, lockDir, phase, shortHash, t) ==
  LET lockPath == getLockPath(projectName, lockDir, phase, shortHash)
      archivePath == (IF phase = "push" THEN <<"push", "-">> ELSE <<>>) \o <<t, ".lock">>
  IN IF lockPath \notin DOMAIN fs
     THEN [archived |-> FALSE, archivePath |-> <<>>, fs |-> fs, au |-> au]
     ELSE [archived |-> TRUE, archivePath |-> archivePath,
           fs |-> [q \in DOMAIN fs \ {lockPath} |-> fs[q]],
           au |-> {f \in au : f.file # archivePath}
                    \cup {[file |-> archivePath, body |-> fs[lockPath]]}]

\* the names lib/lock-manager.js exports
lockManagerExports ==
  {"ensureDir", "getLockPath", "getPushLockPath", "getAllLocks", "createLock",
   "checkLock", "checkPushLock", "releaseLock", "releasePushLock", "clearLock",
   "clearAllLocks", "archiveLock"}

----------------------------------------------------------------------------
(* Runner engine: lib/runner.js *)

\* spawnSync reports status null for a process killed on timeout
KilledStatus == -1

ExitStatuses == {0, 1, 2, 127, KilledStatus}

\* what a runner process prints: a steering block with a verdict (an empty
\* output is the one of a process that could not be spawned)
Outputs == {"VERDICT: PASS", "VERDICT: FAIL"}

Durations == {250}

\* the outcomes of spawning one runner: it exits (or is killed) with some output,
\* or spawnSync itself throws
Outcomes ==
  [threw : {FALSE}, status : ExitStatuses, output : Outputs, duration : Durations]
  \cup [threw : {TRUE}, status : {KilledStatus}, output : {""}, duration : Durations]

\* parseLLMOutput(...).verdict: the upper-cased text after VERDICT: inside the
\* steering block, "" when the output has no block or the block no verdict
verdictOf(output) ==
  IF output = "VERDICT: PASS" THEN "PASS"
  ELSE IF output = "VERDICT: FAIL" THEN "FAIL"
  ELSE IF output = "VERDICT: maybe" THEN "MAYBE"
  ELSE ""

\* a pass for every process that was not killed
exitPassed_notKilled(status) == status >= 0

\* passed = result.status === 0
exitPassed(status) == status = 0

\* an execution that reports a process that could not be run as passed
executeRunner_catchPasses(runner, o) ==
  [name |-> runner.name,
   passed |-> IF o.threw THEN TRUE
              ELSE IF runner.llm /\ verdictOf(o.output) # "" THEN verdictOf(o.output) = "PASS"
              ELSE o.status = 0,
   output |-> IF o.threw THEN "" ELSE o.output, hash |-> IF o.threw THEN "" ELSE o.output,
   duration |-> o.duration, hasProof |-> TRUE]

\* executeRunner: the result object for one runner and the outcome of its process.
\* hash stands for the first 7 hex digits of the output's sha256.
executeRunner(runner, o) ==
  IF o.threw
  THEN [name |-> runner.name, passed |-> FALSE, output |-> "", hash |-> "",
        duration |-> o.duration, hasProof |-> TRUE]
  ELSE [name |-> runner.name,
        passed |-> IF runner.llm /\ verdictOf(o.output) # ""
                   THEN verdictOf(o.output) = "PASS"
                   ELSE exitPassed(o.status),
        output |-> o.output, hash |-> o.output,
        duration |-> o.duration, hasProof |-> TRUE]

RECURSIVE runLoop_noBreak(_, _, _)
\* a loop that runs every runner of the phase, whatever the results
runLoop_noBreak(rs, outs, i) ==
  IF i > Len(rs) THEN <<>>
  ELSE <<executeRunner(rs[i], outs[i])>> \o runLoop_noBreak(rs, outs, i + 1)

RECURSIVE runLoop(_, _, _)
\* the for loop of runRunners: push a result, break on the first failure
runLoop(rs, outs, i) ==
  IF i > Len(rs) THEN <<>>
  ELSE LET result == executeRunner(rs[i], outs[i])
       IN IF ~result.passed THEN <<result>>
          ELSE <<result>> \o runLoop(rs, outs, i + 1)

\* a run that reports success only when a runner has run and passed
runRunners_needsResult(runners, phase, outs) ==
  LET results == runLoop(phaseRunners(runners, phase), outs, 1)
  IN [allPassed |-> results # <<>> /\ \A i \in DOMAIN results : results[i].passed,
      results |-> results]

\* a run that reports success whatever its results are
runRunners_allPassed(runners, phase, outs) ==
  [allPassed |-> TRUE, results |-> runLoop(phaseRunners(runners, phase), outs, 1)]

\* runRunners(runners, projectName, phase), outs[i] the outcome of the i-th
\* runner of the phase if it is run
runRunners(runners, phase, outs) ==
  LET rs == phaseRunners(runners, phase)
      results == runLoop(rs, outs, 1)
  IN IF Len(rs) = 0 THEN [allPassed |-> TRUE, results |-> <<>>]
     ELSE [allPassed |-> \A i \in DOMAIN results : results[i].passed,
           results |-> results]

----------------------------------------------------------------------------
(* Proof reconciliation: bin/agent-lease.js *)

\* a line of proof text, by the label its trimmed text starts with ("" for a line
\* that starts with none of the four labels) and the trimmed rest of the line
ProofLine(label, val) == [label |-> label, val |-> val]

RECURSIVE parseLoop(_, _, _, _, _)
\* the for loop of parseAgentProof over lines i.., with the sections pushed so
\* far, and currentRunner (cur, meaningful when hasCur)
parseLoop(text, i, sections, hasCur, cur) ==
  IF i > Len(text)
  THEN (IF hasCur THEN Append(sections, cur) ELSE sections)
  ELSE IF text[i].label = "Runner:"
       THEN parseLoop(text, i + 1,
                      IF hasCur THEN Append(sections, cur) ELSE sections,
                      TRUE, [name |-> text[i].val, status |-> <<>>, output |-> <<>>])
  ELSE IF text[i].label = "Status:" /\ hasCur
       THEN parseLoop(text, i + 1, sections, TRUE,
                      [cur EXCEPT !.status = toUpperCase(text[i].val)])
  ELSE IF text[i].label = "Output:" /\ hasCur
       THEN parseLoop(text, i + 1, sections, TRUE, [cur EXCEPT !.output = text[i].val])
  ELSE parseLoop(text, i + 1, sections, hasCur, cur)

\* parseAgentProof(text).runners
parseAgentProof(text) ==
  parseLoop(text, 1, <<>>, FALSE, [name |-> <<>>, status |-> <<>>, output |-> <<>>])

\* the quote characters of /^['"]|['"]$/g
Quotes == {"'", "\""}

\* A proof text as it is given is a sequence of lines (the pieces between line
\* feeds), each a sequence of tokens: a quote, a blank, a label or a character.

\* a replace that stops after the first match
stripQuotes_leadingOnly(raw) ==
  IF raw # <<>> /\ raw[1] # <<>> /\ Head(raw[1]) \in Quotes
  THEN [raw EXCEPT ![1] = Tail(raw[1])]
  ELSE IF raw # <<>> /\ raw[Len(raw)] # <<>> /\ raw[Len(raw)][Len(raw[Len(raw)])] \in Quotes
       THEN [raw EXCEPT ![Len(raw)] = SubSeq(raw[Len(raw)], 1, Len(raw[Len(raw)]) - 1)]
       ELSE raw

\* text.replace(/^['"]|['"]$/g, ''): a quote that starts the text and a quote
\* that ends it are removed
stripQuotes(raw) ==
  LET s1 == IF raw # <<>> /\ raw[1] # <<>> /\ Head(raw[1]) \in Quotes
            THEN [raw EXCEPT ![1] = Tail(raw[1])] ELSE raw
      n == Len(s1)
  IN IF n > 0 /\ s1[n] # <<>> /\ s1[n][Len(s1[n])] \in Quotes
     THEN [s1 EXCEPT ![n] = SubSeq(s1[n], 1, Len(s1[n]) - 1)]
     ELSE s1

RECURSIVE trimStart(_)
trimStart(l) == IF l # <<>> /\ Head(l) = " " THEN trimStart(Tail(l)) ELSE l

RECURSIVE trimEnd(_)
trimEnd(l) == IF l # <<>> /\ l[Len(l)] = " " THEN trimEnd(SubSeq(l, 1, Len(l) - 1)) ELSE l

\* String.prototype.trim
trim(l) == trimEnd(trimStart(l))

\* the labels parseAgentProof tests a trimmed line for
Labels == {"Runner:", "Status:", "Output:", "Summary:"}

\* one line of the loop: const trimmed = line.trim(), the label it starts with
\* and trimmed.replace(label, '').trim()
lineOf(line) ==
  LET trimmed == trim(line)
  IN IF trimmed # <<>> /\ Head(trimmed) \in Labels
     THEN ProofLine(Head(trimmed), trim(Tail(trimmed)))
     ELSE ProofLine("", trimmed)

\* parseAgentProof(text).runners for a text as it is given
parseAgentProofText(raw) ==
  LET clean == stripQuotes(raw)
  IN parseAgentProof([i \in DOMAIN clean |-> lineOf(clean[i])])

\* the missing runners by a comparison of the names as written
missingRunners_caseSensitive(required, parsed) ==
  Filter(required,
         {r \in Range(required) : ~(\E i \in DOMAIN parsed : parsed[i].name = r.name)})

\* topicRunners.filter(r => !proofRunnerNames.includes(r.name.toLowerCase()))
missingRunners(required, parsed) ==
  Filter(required,
         {r \in Range(required) :
            ~(\E i \in DOMAIN parsed : toLowerCase(parsed[i].name) = toLowerCase(r.name))})

\* parsed.runners.filter(r => r.status === 'FAIL')
failedRunners(parsed) ==
  Filter(parsed, {r \in Range(parsed) : r.status = FAIL})

\* the decision both release handlers take on a PENDING lock and a proof text:
\* the message printed and the runner names listed under it
reconcile(required, text) ==
  LET parsed == parseAgentProof(text)
      missing == missingRunners(required, parsed)
      failed == failedRunners(parsed)
  IN IF Len(missing) > 0
     THEN [msg |-> "incomplete", names |-> [i \in DOMAIN missing |-> missing[i].name]]
     ELSE IF Len(failed) > 0
     THEN [msg |-> "failures", names |-> [i \in DOMAIN failed |-> failed[i].name]]
     ELSE [msg |-> "accepted", names |-> [i \in DOMAIN parsed |-> parsed[i].name]]

----------------------------------------------------------------------------
(* Template expansion: lib/runner.js expandCommand, lib/config.js             *)
(* interpolateTemplate. A text is a sequence of tokens: a placeholder such as *)
(* "{{diff}}", a replacement pattern such as "$&", or a word.                 *)

RECURSIVE Flatten(_)
\* the concatenation of a sequence of texts
Flatten(ss) == IF ss = <<>> THEN <<>> ELSE Head(ss) \o Flatten(Tail(ss))

\* the replacement pattern written dollar sign, grave accent
DollarBefore == "$[grave]"

\* what String.prototype.replace makes of the replacement string repl for the
\* match at position i of str: $$ is a dollar sign, $& the matched text, $` the
\* text before the match, $' the text after it
GetSubstitution(repl, str, i) ==
  Flatten([j \in DOMAIN repl |->
             IF repl[j] = "$$" THEN <<"$">>
             ELSE IF repl[j] = "$&" THEN <<str[i]>>
             ELSE IF repl[j] = DollarBefore THEN SubSeq(str, 1, i - 1)
             ELSE IF repl[j] = "$'" THEN SubSeq(str, i + 1, Len(str))
             ELSE <<repl[j]>>])

\* str.replace(/\{\{name\}\}/g, repl) with a replacement string: every match in
\* str is replaced, the replacements are not searched again
replace(str, placeholder, repl) ==
  Flatten([i \in DOMAIN str |->
             IF str[i] = placeholder THEN GetSubstitution(repl, str, i) ELSE <<str[i]>>])

\* the {{env:NAME}} placeholders and the NAME the regular expression captures
EnvVarOf == [ph \in {"{{env:CI_TOKEN}}"} |-> "CI_TOKEN"]

\* process.env[varName]; "" stands for undefined
processEnv(e, varName) == IF varName \in DOMAIN e THEN e[varName] ELSE ""

\* a replacer that leaves the placeholder of an unset variable in place
envReplacer_keepsUnset(e, match, varName) ==
  IF processEnv(e, varName) # "" THEN <<processEnv(e, varName)>> ELSE <<match>>

\* (_, varName) => process.env[varName] || ''
envReplacer(e, match, varName) ==
  IF processEnv(e, varName) # "" THEN <<processEnv(e, varName)>> ELSE <<>>

\* str.replace(/\{\{env:([^}]+)\}\}/g, replacer): the result of a replacer
\* function is inserted as it is
replaceEnv(str, e) ==
  Flatten([i \in DOMAIN str |->
             IF str[i] \in DOMAIN EnvVarOf THEN envReplacer(e, str[i], EnvVarOf[str[i]])
             ELSE <<str[i]>>])

\* expandCommand(command, context, projectName, phase) under environment e
expandCommand(command, context, projectName, phase, e) ==
  LET diff == IF phase = "push" THEN context.diffPush ELSE context.diff
      s1 == replace(command, "{{diff}}", diff)
      s2 == replace(s1, "{{files}}", context.files)
      s3 == replace(s2, "{{project}}", projectName)
      s4 == replace(s3, "{{branch}}", context.branch)
      s5 == replace(s4, "{{hash}}", context.hash)
      s6 == replace(s5, "{{topic}}", context.topic)
      s7 == replace(s6, "{{args}}", context.args)
  IN replaceEnv(s7, e)

\* the token that stands for 'x'.repeat(100000)
Block == "x*100000"

\* the diff length beyond which executeRunner sends the diff on standard input
StdinThreshold == 100000

RECURSIVE Size(_)
\* String.prototype.length: a block counts its characters, any other token one
Size(text) ==
  IF text = <<>> THEN 0
  ELSE (IF Head(text) = Block THEN StdinThreshold ELSE 1) + Size(Tail(text))

\* executeRunner up to the spawn: the command given to bash -c and the input
\* given to the process (hasInput false: input undefined)
finalCommand(command, context, projectName, phase, e) ==
  LET usesInlineDiff == "{{diff}}" \in Range(command)
      diffContent == IF phase = "push" THEN context.diffPush ELSE context.diff
  IN IF usesInlineDiff /\ Size(diffContent) > StdinThreshold
     THEN [command |-> replace(command, "{{diff}}", <<"$(cat)">>),
           hasInput |-> TRUE, input |-> diffContent]
     ELSE [command |-> expandCommand(command, context, projectName, phase, e),
           hasInput |-> FALSE, input |-> <<>>]

\* runners.map(r => `  ${r.name}    ${r.command}    [${phase}]`).join('\n')
runnersFormatted(runners) ==
  Flatten([i \in DOMAIN runners |->
             (IF i = 1 THEN <<>> ELSE <<"\n">>)
               \o <<"  ", runners[i].name, "    ">> \o runners[i].command
               \o <<"    [", runners[i].on, "]">>])

\* interpolateTemplate(template, context, config, extra) under environment e
interpolateTemplate(template, context, c, extra, e) ==
  LET isPush == extra.topic \in {<<"pre-push">>, <<"push">>}
      diff == IF isPush /\ context.diffPush # <<>> THEN context.diffPush ELSE context.diff
      s1 == replace(template, "{{diff}}", diff)
      s2 == replace(s1, "{{files}}", context.files)
      s3 == replace(s2, "{{project}}", c.projectName)
      s4 == replace(s3, "{{branch}}", context.branch)
      s5 == replace(s4, "{{hash}}", context.hash)
      s6 == replace(s5, "{{runners}}", runnersFormatted(c._runners))
      s7 == replace(s6, "{{topic}}", extra.topic)
      s8 == replace(s7, "{{args}}", extra.args)
  IN replaceEnv(s8, e)

----------------------------------------------------------------------------
(* Runner sources: lib/config.js normalizeRunners. A source config says for   *)
(* each of the keys runners, topics and validation whether it is present;     *)
(* an empty name or command stands for an absent one.                         *)

\* a normalised runner
Entry(n, c, o) == [name |-> n, command |-> c, on |-> o]

\* the built-in runners
DEFAULT_RUNNERS ==
  << Entry(<<"build">>, <<"npm run build">>, "commit"),
     Entry(<<"lint">>, <<"npm run lint">>, "commit") >>

RECURSIVE split(_, _)
\* str.split(sep)
split(str, sep) ==
  IF \A i \in DOMAIN str : str[i] # sep THEN <<str>>
  ELSE LET k == CHOOSE i \in DOMAIN str : str[i] = sep /\ \A j \in 1..(i - 1) : str[j] # sep
       IN <<SubSeq(str, 1, k - 1)>> \o split(SubSeq(str, k + 1, Len(str)), sep)

RECURSIVE join(_, _)
\* parts.join(sep)
join(parts, sep) ==
  IF parts = <<>> THEN <<>>
  ELSE IF Len(parts) = 1 THEN parts[1]
  ELSE parts[1] \o <<sep>> \o join(Tail(parts), sep)

\* the runners of AGENT_LEASE_RUNNERS="name:cmd,name:cmd"
envRunners(value) ==
  LET entries == split(value, ",")
  IN [i \in DOMAIN entries |->
        LET parts == split(entries[i], ":")
        IN Entry(trim(parts[1]), trim(join(Tail(parts), ":")), "commit")]

RECURSIVE topicsLoop(_, _, _)
\* the loops over the runners of the topics, pairs being the [topic, runner]
\* pairs in the order of Object.entries: a runner object with a name and a
\* command is pushed unless its name has been seen
topicsLoop(pairs, i, seen) ==
  IF i > Len(pairs) THEN <<>>
  ELSE LET r == pairs[i].r
       IN IF r.obj /\ r.name # <<>> /\ r.command # <<>> /\ r.name \notin seen
          THEN <<Entry(r.name, r.command, PhaseOf(pairs[i].topic))>>
                 \o topicsLoop(pairs, i + 1, seen \cup {r.name})
          ELSE topicsLoop(pairs, i + 1, seen)

\* the runners extracted from a v4 topics object
topicsRunners(topics) ==
  topicsLoop(Flatten([i \in DOMAIN topics |->
                        [j \in DOMAIN topics[i].runners |->
                           [topic |-> topics[i].topic, r |-> topics[i].runners[j]]]]),
             1, {})

\* the runners of a legacy validation object, one per key with a command
validationRunners(validation) ==
  LET kept == Filter(validation, {v \in Range(validation) : v.command # <<>>})
  IN [i \in DOMAIN kept |-> Entry(kept[i].name, kept[i].command, "commit")]

\* normalizeRunners over every source: the environment override, the runners
\* array, the topics object, the validation object, the built-in runners
normalizeRunnersFrom(c, value) ==
  IF value # <<>> THEN envRunners(value)
  ELSE IF c.hasRunners THEN normalizeRunners(c)
  ELSE IF c.hasTopics /\ Len(topicsRunners(c.topics)) > 0 THEN topicsRunners(c.topics)
  ELSE IF c.hasValidation THEN validationRunners(c.validation)
  ELSE DEFAULT_RUNNERS

----------------------------------------------------------------------------
(* Inputs *)

Topics == {"pre-commit", "pre-push", "deploy"}

\* the values of --phase given to the release command
Phases == {"commit", "push", "deploy"}

NameA == <<"a">>
NameB == <<"b">>
NameC == <<"c">>
UpperA == <<"A">>
UpperB == <<"B">>
lowerFail == <<"f", "a", "i", "l">>

NoTopics == [t \in {} |-> <<>>]

Config(rs, hasTopics, topics) ==
  [projectName |-> <<"p">>, lockDir |-> "locks", runners |-> rs,
   hasTopics |-> hasTopics, topics |-> topics]

\* the config files of the modelled projects
Configs ==
  { \* legacy trigger phases, one runner per phase
    Config(<<Runner(NameA, "commit", FALSE), Runner(NameB, "push", FALSE)>>, FALSE, NoTopics),
    \* a runner of both phases and a reviewer, upper-case name
    Config(<<Runner(NameA, "both", FALSE), Runner(UpperB, "commit", TRUE)>>, FALSE, NoTopics),
    \* explicit topics, runners without "on" (so nothing runs on push)
    Config(<<Runner(NameA, "", FALSE), Runner(NameB, "", FALSE)>>, TRUE,
           [t \in {"pre-commit", "deploy"} |-> IF t = "pre-commit" THEN <<NameA>> ELSE <<NameB>>]) }

RunnerLine(n) == ProofLine("Runner:", n)
StatusLine(st) == ProofLine("Status:", st)

\* the lines proof texts are made of
ProofLines ==
  { RunnerLine(NameA), RunnerLine(UpperA), RunnerLine(NameB), RunnerLine(NameC),
    StatusLine(PASS), StatusLine(FAIL), StatusLine(lowerFail) }

\* every proof text of at most n lines (the empty text included)
ProofTexts(n) == UNION {[1..k -> ProofLines] : k \in 0..n}

\* the proof texts submitted in Spec
ProofMenu ==
  { <<>>,
    <<RunnerLine(NameA), StatusLine(PASS)>>,
    <<RunnerLine(UpperA), StatusLine(PASS), RunnerLine(NameB), StatusLine(PASS)>>,
    <<RunnerLine(NameB), StatusLine(PASS)>>,
    <<RunnerLine(NameA), StatusLine(lowerFail), RunnerLine(NameB), StatusLine(PASS)>>,
    <<RunnerLine(NameC), StatusLine(FAIL)>> }

\* the environment variables the program reads; "" stands for an unset variable
EnvNames == {"AGENT_LEASE_LOCK_DIR", "XDG_RUNTIME_DIR", "AGENT_LEASE_PROJECT", "CI_TOKEN"}

NoEnv == [v \in EnvNames |-> ""]

\* the worktree the commands of Spec run in
MainRoot == Root("/w/main", <<"main">>, <<"p">>, "P")

\* Math.random() in the creation token
Randoms == {"r1"}

shortHashOf(h) == IF h = 0 THEN "new" ELSE "h" \o ToString(h)

----------------------------------------------------------------------------
(* The CLI commands: bin/agent-lease.js *)

\* what an invocation leaves behind for its caller: the exit code, the message
\* printed, the runner names listed under it and the self-run results
Outcome(cmd, topic, given, proof, pre, code, msg, names, results, threw) ==
  [cmd |-> cmd, topic |-> topic, given |-> given, proof |-> proof, pre |-> pre,
   code |-> code, msg |-> msg, names |-> names, results |-> results, threw |-> threw]

\* the lock state a handler reads with checkLock
preOf(lockState) ==
  IF ~lockState.exists THEN "none"
  ELSE IF lockState.auditPassed THEN "validated"
  ELSE "pending"

\* the handler's next state: the lock directory, the proof directory, the outcome
Effect(fs, pf, out) == [fs |-> fs, pf |-> pf, out |-> out]

\* calling releaseLockWithAgentProof, which is destructured from
\* require('../lib/lock-manager') and is not among its exports: the call throws
\* a TypeError, nothing is written and node exits with status 1
callReleaseLockWithAgentProof(fs, pf) ==
  IF "releaseLockWithAgentProof" \in lockManagerExports
  THEN [threw |-> FALSE, fs |-> fs, pf |-> pf]
  ELSE [threw |-> TRUE, fs |-> fs, pf |-> pf]

\* a release branch that stamps the lock files before it decides
releaseWithProof_stampsFirst(fs, pf, cmd, topic, required, text) ==
  LET d == reconcile(required, text)
      stamped == [p \in DOMAIN fs |-> fs[p] \o <<Line(MARKER, <<0>>), Line("STATUS", <<"VALIDATED">>)>>]
  IN Effect(stamped, pf,
            Outcome(cmd, topic, TRUE, text, "pending", IF d.msg = "accepted" THEN 0 ELSE 1,
                    d.msg, d.names, <<>>, FALSE))

\* the release branch shared by cmd_lease and cmd_release once the lock is known
\* to be pending: reject with exit 1, or accept and stamp
releaseWithProof(fs, pf, cmd, topic, required, text) ==
  LET d == reconcile(required, text)
      call == callReleaseLockWithAgentProof(fs, pf)
  IN IF d.msg # "accepted"
     THEN Effect(fs, pf, Outcome(cmd, topic, TRUE, text, "pending", 1, d.msg, d.names, <<>>, FALSE))
     ELSE Effect(call.fs, call.pf,
                 Outcome(cmd, topic, TRUE, text, "pending",
                         IF call.threw THEN 1 ELSE 0, d.msg, d.names, <<>>, call.threw))

\* a lease command whose gate writes a new lock at every check
cmd_lease_alwaysCreates(fs, pf, cfg, topic, text, shortHash, guid, t) ==
  LET phase == PhaseOf(topic)
      lockState == checkLock(fs, cfg.projectName, cfg.lockDir, phase, shortHash)
      pre == preOf(lockState)
      created == createLock(fs, cfg.projectName, cfg.lockDir, phase, shortHash, guid, t)
  IN IF text # <<>>
     THEN IF ~lockState.exists
          THEN Effect(fs, pf, Outcome("lease", topic, TRUE, text, pre, 0, "nolock", <<>>, <<>>, FALSE))
          ELSE IF lockState.auditPassed
          THEN Effect(fs, pf, Outcome("lease", topic, TRUE, text, pre, 0, "already", <<>>, <<>>, FALSE))
          ELSE releaseWithProof(fs, pf, "lease", topic, getRunnersForTopic(cfg, topic), text)
     ELSE IF lockState.exists /\ lockState.auditPassed
          THEN Effect(created, pf, Outcome("lease", topic, FALSE, text, pre, 0, "allow", <<>>, <<>>, FALSE))
          ELSE Effect(created, pf, Outcome("lease", topic, FALSE, text, pre, 1, "deny", <<>>, <<>>, FALSE))

\* a lease command whose release mode creates the lock it does not find
cmd_lease_createsOnRelease(fs, pf, cfg, topic, text, shortHash, guid, t) ==
  LET phase == PhaseOf(topic)
      lockState == checkLock(fs, cfg.projectName, cfg.lockDir, phase, shortHash)
      pre == preOf(lockState)
      created == createLock(fs, cfg.projectName, cfg.lockDir, phase, shortHash, guid, t)
  IN IF text # <<>>
     THEN IF ~lockState.exists
          THEN Effect(created, pf, Outcome("lease", topic, TRUE, text, pre, 0, "nolock", <<>>, <<>>, FALSE))
          ELSE IF lockState.auditPassed
          THEN Effect(fs, pf, Outcome("lease", topic, TRUE, text, pre, 0, "already", <<>>, <<>>, FALSE))
          ELSE releaseWithProof(fs, pf, "lease", topic, getRunnersForTopic(cfg, topic), text)
     ELSE IF lockState.exists /\ lockState.auditPassed
          THEN Effect(fs, pf, Outcome("lease", topic, FALSE, text, pre, 0, "allow", <<>>, <<>>, FALSE))
          ELSE Effect(IF ~lockState.exists THEN created ELSE fs, pf,
                      Outcome("lease", topic, FALSE, text, pre, 1, "deny", <<>>, <<>>, FALSE))

\* cmd_lease(topic, args): text is the value of --audit-proof, empty when the flag
\* is absent, has no value or has an empty value
cmd_lease(fs, pf, cfg, topic, text, shortHash, guid, t) ==
  LET phase == PhaseOf(topic)
      lockState == checkLock(fs, cfg.projectName, cfg.lockDir, phase, shortHash)
      pre == preOf(lockState)
  IN IF text # <<>>
     THEN \* ----- RELEASE MODE -----
          IF ~lockState.exists
          THEN Effect(fs, pf, Outcome("lease", topic, TRUE, text, pre, 0, "nolock", <<>>, <<>>, FALSE))
          ELSE IF lockState.auditPassed
          THEN Effect(fs, pf, Outcome("lease", topic, TRUE, text, pre, 0, "already", <<>>, <<>>, FALSE))
          ELSE releaseWithProof(fs, pf, "lease", topic, getRunnersForTopic(cfg, topic), text)
     ELSE \* ----- DENY MODE -----
          IF lockState.exists /\ lockState.auditPassed
          THEN Effect(fs, pf, Outcome("lease", topic, FALSE, text, pre, 0, "allow", <<>>, <<>>, FALSE))
          ELSE Effect(IF ~lockState.exists
                      THEN createLock(fs, cfg.projectName, cfg.lockDir, phase, shortHash, guid, t)
                      ELSE fs,
                      pf,
                      Outcome("lease", topic, FALSE, text, pre, 1, "deny", <<>>, <<>>, FALSE))

\* cmd_release(args): given says whether --audit-proof is among the arguments,
\* text is its value (empty for the bare flag), outs the outcomes of the runner
\* processes of a self-run
cmd_release(fs, pf, cfg, given, text, phase, outs, shortHash, t) ==
  LET lockState == checkLock(fs, cfg.projectName, cfg.lockDir, phase, shortHash)
      pre == preOf(lockState)
      run == runRunners(cfg._runners, phase, outs)
      rel == releaseLock(fs, pf, cfg.projectName, cfg.lockDir, run.results, phase, shortHash, t)
  IN IF ~given
     THEN Effect(fs, pf, Outcome("release", phase, given, text, "unread", 1, "usage", <<>>, <<>>, FALSE))
     ELSE IF phase \notin {"commit", "push"}
     THEN Effect(fs, pf, Outcome("release", phase, given, text, "unread", 1, "badphase", <<>>, <<>>, FALSE))
     ELSE IF ~lockState.exists
     THEN Effect(fs, pf, Outcome("release", phase, given, text, pre, 0, "nolock", <<>>, <<>>, FALSE))
     ELSE IF lockState.auditPassed
     THEN Effect(fs, pf, Outcome("release", phase, given, text, pre, 0, "already", <<>>, <<>>, FALSE))
     ELSE IF text # <<>>
     THEN \* v3.2 mode: agent provided proof text
          releaseWithProof(fs, pf, "release", phase, phaseRunners(cfg._runners, phase), text)
     ELSE \* v2 mode: run runners internally
          IF ~run.allPassed
          THEN Effect(fs, pf, Outcome("release", phase, given, text, pre, 1, "selfrun-failed",
                                      <<>>, run.results, FALSE))
          ELSE Effect(rel.fs, rel.pf, Outcome("release", phase, given, text, pre, 0, "selfrun-released",
                                              <<>>, run.results, FALSE))

\* what the built-in gate templates render: the checklist, the changed files,
\* the runner list and the command to run next
DefaultTemplateParts == {"checklist", "files", "runners", "remediation"}

\* the statements an invocation of cmd that ends with msg writes to its output:
\* the gate prints the forbidden header and the rendered template, a rejection
\* the names of the runners and what to include or fix, a failed self-run the
\* results and the path of the lock
printed(cmd, msg) ==
  IF msg = "deny" THEN {"forbidden"} \cup DefaultTemplateParts
  ELSE IF msg = "incomplete" THEN {"missing-runners", "include-all-runners"}
  ELSE IF msg = "failures" THEN {"failed-runners", "fix-and-resubmit"}
  ELSE IF msg = "accepted" THEN {"accepted", "records"}
  ELSE IF msg = "selfrun-failed" THEN {"results", "validation-failed", "lock-remains"}
  ELSE IF msg = "selfrun-released" THEN {"results", "released", "run-again"}
  ELSE IF msg = "allow" THEN {}
  ELSE {msg}

\* the lock directory a command works in: flag is the value of --lock-dir, ""
\* when absent; cmd_release does not read the flag
lockDirFor(cmd, flag, cfg) ==
  IF cmd \in {"lease", "status", "clear"} /\ flag # "" THEN flag ELSE cfg.lockDir

\* cmd_clear(args): topic is the value of --topic, "" when absent
cmd_clear(fs, pf, cfg, topic) ==
  LET cl == clearAllLocks(fs, cfg.projectName, cfg.lockDir, IF topic = "" THEN "" ELSE PhaseOf(topic))
  IN Effect(cl.fs, pf, Outcome("clear", topic, FALSE, <<>>, "unread", 0, "cleared", <<>>, <<>>, FALSE))

----------------------------------------------------------------------------
(* The state machine *)

\* a call of one function of the libraries: its name, its arguments and, once it
\* has returned, its result
Call(fn, args, done, result) == [fn |-> fn, args |-> args, done |-> done, result |-> result]

NoCall == Call("none", <<>>, FALSE, <<>>)

\* the invocations in progress, by process: none where the commands run one
\* after the other
NoProcs == <<>>

NoOutcome == Outcome("none", "", FALSE, <<>>, "unread", 0, "", <<>>, <<>>, FALSE)

NoFiles == [p \in {} |-> <<>>]

Init ==
  /\ files = NoFiles
  /\ proofs = {}
  /\ audit = {}
  /\ last = NoOutcome
  /\ now = 0
  /\ head = 0
  /\ config \in Configs
  /\ cwd = MainRoot
  /\ env = NoEnv
  /\ libcall = NoCall
  /\ running = NoProcs

\* one CLI invocation with effect e: the clock ticks, the files and the outcome
\* are the handler's; no command calls archiveLock, so the audit directory stays
Invoke(e) ==
  /\ files' = e.fs
  /\ proofs' = e.pf
  /\ last' = e.out
  /\ now' = now + 1
  /\ UNCHANGED <<audit, head, config, cwd, env, libcall, running>>

\* agent-lease lease <topic> [--audit-proof='<text>']
Lease(texts) ==
  /\ now < MaxClock
  /\ \E topic \in Topics, text \in texts, r \in Randoms :
       Invoke(cmd_lease(files, proofs, loadConfigChain(config, cwd, env), topic, text,
                        shortHashOf(head), <<now, r>>, now))

\* agent-lease release --audit-proof='<text>' [--phase <phase>]
ReleaseWithText(texts) ==
  /\ now < MaxClock
  /\ \E phase \in Phases, text \in texts \ {<<>>} :
       Invoke(cmd_release(files, proofs, loadConfigChain(config, cwd, env), TRUE, text, phase,
                          <<>>, shortHashOf(head), now))

\* agent-lease release [--audit-proof] [--phase <phase>]: no proof text. The
\* runners of the phase are spawned only when the handler reaches runRunners,
\* that is with the flag, a valid phase and a pending lock.
ReleaseSelfRun ==
  /\ now < MaxClock
  /\ \E phase \in Phases, given \in BOOLEAN :
       LET cfg == loadConfigChain(config, cwd, env)
           reached == /\ given
                      /\ phase \in {"commit", "push"}
                      /\ preOf(checkLock(files, cfg.projectName, cfg.lockDir, phase,
                                         shortHashOf(head))) = "pending"
           n == IF reached THEN Len(phaseRunners(cfg._runners, phase)) ELSE 0
       IN \E outs \in [1..n -> Outcomes] :
            Invoke(cmd_release(files, proofs, cfg, given, <<>>, phase,
                               outs, shortHashOf(head), now))

\* agent-lease clear [--topic <topic>]
Clear ==
  /\ now < MaxClock
  /\ \E topic \in Topics \cup {""} :
       Invoke(cmd_clear(files, proofs, loadConfigChain(config, cwd, env), topic))

\* a commit is created (after an allowed gate check, or with --no-verify): HEAD
\* moves to a new revision
GitCommit ==
  /\ now < MaxClock
  /\ head < MaxCommits
  /\ head' = head + 1
  /\ UNCHANGED <<files, proofs, audit, last, now, config, cwd, env, libcall, running>>

Next ==
  \/ Lease(ProofMenu)
  \/ ReleaseWithText(ProofMenu)
  \/ ReleaseSelfRun
  \/ Clear
  \/ GitCommit

Spec == Init /\ [][Next]_vars

----------------------------------------------------------------------------
(* Proof submission on a pending lock, over every proof text of at most       *)
(* MaxProofLines lines: the initial states are the states one blocked check   *)
(* of a topic leaves, and one release with proof text is applied.             *)

InitProof ==
  /\ config \in Configs
  /\ cwd = MainRoot
  /\ env = NoEnv
  /\ libcall = NoCall
  /\ running = NoProcs
  /\ \E topic \in Topics, r \in Randoms :
       LET e == cmd_lease(NoFiles, {}, loadConfigChain(config, cwd, env), topic, <<>>,
                          shortHashOf(0), <<0, r>>, 0)
       IN files = e.fs /\ proofs = e.pf /\ last = e.out
  /\ audit = {}
  /\ now = 1
  /\ head = 0

\* agent-lease lease <topic> --audit-proof='<text>'
ProofLease ==
  /\ now = 1
  /\ \E topic \in Topics, text \in ProofTexts(MaxProofLines) \ {<<>>}, r \in Randoms :
       Invoke(cmd_lease(files, proofs, loadConfigChain(config, cwd, env), topic, text,
                        shortHashOf(head), <<now, r>>, now))

\* agent-lease release --audit-proof='<text>' --phase <phase>
ProofRelease ==
  /\ now = 1
  /\ \E phase \in {"commit", "push"}, text \in ProofTexts(MaxProofLines) \ {<<>>} :
       Invoke(cmd_release(files, proofs, loadConfigChain(config, cwd, env), TRUE, text, phase,
                          <<>>, shortHashOf(head), now))

NextProof ==
  \/ ProofLease
  \/ ProofRelease

SpecProof == InitProof /\ [][NextProof]_vars

----------------------------------------------------------------------------
(* The vocabulary of the properties *)

Cfg == loadConfigChain(config, cwd, env)

\* the lock file of a phase at the current revision
LockPath(phase) == getLockPath(Cfg.projectName, Cfg.lockDir, phase, shortHashOf(head))

HasLine(content, k) == \E i \in DOMAIN content : content[i].k = k

Unlocked(fs, p) == p \notin DOMAIN fs

Pending(fs, p) ==
  /\ p \in DOMAIN fs
  /\ ~HasLine(fs[p], MARKER)
  /\ \E i \in DOMAIN fs[p] : fs[p][i] = Line("STATUS", <<"PENDING">>)

Validated(fs, p) == p \in DOMAIN fs /\ HasLine(fs[p], MARKER)

\* the phase whose lock an invocation is about, and the runners it requires
PhaseOfOutcome(o) == IF o.cmd = "lease" THEN PhaseOf(o.topic) ELSE o.topic

RequiredOf(o) ==
  IF o.cmd = "lease" THEN getRunnersForTopic(Cfg, o.topic)
  ELSE phaseRunners(Cfg._runners, o.topic)

\* this step is a CLI invocation
Ran == now' = now + 1

\* this step is a gate check: lease <topic> without proof text
CheckStep == Ran /\ last'.cmd = "lease" /\ ~last'.given

\* this step is a release with proof text, by either command
ProofStep ==
  /\ Ran
  /\ last'.given
  /\ last'.proof # <<>>
  /\ last'.cmd = "lease" \/ (last'.cmd = "release" /\ last'.topic \in {"commit", "push"})

\* this step is a self-run release: release --audit-proof without text
SelfRunStep ==
  /\ Ran
  /\ last'.cmd = "release"
  /\ last'.given
  /\ last'.proof = <<>>
  /\ last'.topic \in {"commit", "push"}

\* the lock file the step is about
StepPath == LockPath(PhaseOfOutcome(last'))

\* the required runners no record of the text names, whatever the case
Unmatched(required, text) ==
  {i \in DOMAIN required :
     ~(\E j \in DOMAIN text : /\ text[j].label = "Runner:"
                              /\ toLowerCase(text[j].val) = toLowerCase(required[i].name))}

\* the spellings of FAIL
FailWords == {FAIL, lowerFail}

\* the Status: lines that decide the status of a record: after a Runner: line,
\* with no later Status: line in the same record
DecidingStatus(text) ==
  {j \in DOMAIN text :
     /\ text[j].label = "Status:"
     /\ \E i \in 1..(j - 1) : text[i].label = "Runner:"
     /\ ~(\E k \in (j + 1)..Len(text) :
             /\ text[k].label = "Status:"
             /\ \A m \in (j + 1)..k : text[m].label # "Runner:")}

\* the name of the record a line belongs to
RecordName(text, j) ==
  text[CHOOSE i \in 1..j : /\ text[i].label = "Runner:"
                           /\ \A m \in (i + 1)..j : text[m].label # "Runner:"].val

\* the names of the records whose status is FAIL
FailNames(text) ==
  {RecordName(text, j) : j \in {k \in DecidingStatus(text) : text[k].val \in FailWords}}

\* the records of the text cover the required runners with PASS and none is FAIL
CompleteAllPass(required, text) ==
  /\ Unmatched(required, text) = {}
  /\ \A j \in DecidingStatus(text) : text[j].val = PASS
  /\ \A i \in DOMAIN text : text[i].label = "Runner:" => \E j \in DecidingStatus(text) :
        j > i /\ \A m \in (i + 1)..j : text[m].label # "Runner:"

----------------------------------------------------------------------------
(* Gate checks and proof submission *)

C1_Step ==
  CheckStep =>
    /\ Unlocked(files, StepPath) =>
         /\ last'.code # 0
         /\ DOMAIN files' = DOMAIN files \cup {StepPath}
         /\ \A q \in DOMAIN files : files'[q] = files[q]
         /\ Pending(files', StepPath)
    /\ Pending(files, StepPath) =>
         /\ last'.code # 0
         /\ files' = files

\* C1: a check of an unlocked topic without proof text creates exactly one PENDING
\* lock and blocks; a check of a PENDING topic blocks again, creates no second
\* lock and leaves the lock record as it is.
C1_CheckCreatesOnePendingLock == [][C1_Step]_vars

\* a check has just been blocked a second time on the lock of the first one
C1_Witness ==
  /\ last.cmd = "lease"
  /\ ~last.given
  /\ last.pre = "pending"
  /\ last.code = 1
  /\ Pending(files, LockPath(PhaseOf(last.topic)))

C2_Step ==
  (ProofStep /\ Pending(files, StepPath) /\ CompleteAllPass(RequiredOf(last'), last'.proof)) =>
     /\ last'.code = 0
     /\ Validated(files', StepPath)

\* C2: on a PENDING topic, a release whose proof text has a PASS record for every
\* required runner and no FAIL record succeeds with exit code 0 and stamps the
\* lock VALIDATED.
C2_CompleteProofReleases == [][C2_Step]_vars

\* the last invocation was a release with proof text of a topic found PENDING
ProofOnPending ==
  /\ last.given
  /\ last.proof # <<>>
  /\ last.cmd = "lease" \/ (last.cmd = "release" /\ last.topic \in {"commit", "push"})
  /\ last.pre = "pending"

\* the lock file the last invocation was about
LastPath == LockPath(PhaseOfOutcome(last))

\* C3: on a PENDING topic, a release whose proof text has no record for some
\* required runner (names compared without regard to case) is rejected with a
\* non-zero exit code, and the names it lists as missing are exactly the required
\* runners without a record.
C3_MissingRunnersRejected ==
  ProofOnPending =>
     LET required == RequiredOf(last)
         unmatched == Unmatched(required, last.proof)
     IN /\ unmatched # {} =>
             /\ last.code # 0
             /\ last.msg = "incomplete"
             /\ Len(last.names) = Cardinality(unmatched)
             /\ Range(last.names) = {required[i].name : i \in unmatched}
        /\ last.msg = "incomplete" => unmatched # {}

\* a proof was rejected as incomplete although it names a required runner in
\* another case than the config does
C3_Witness ==
  /\ ProofOnPending
  /\ last.msg = "incomplete"
  /\ \E i \in DOMAIN RequiredOf(last), j \in DOMAIN last.proof :
        /\ last.proof[j].label = "Runner:"
        /\ last.proof[j].val # RequiredOf(last)[i].name
        /\ toLowerCase(last.proof[j].val) = toLowerCase(RequiredOf(last)[i].name)

\* C4: on a PENDING topic, a release whose proof text has a record with status
\* FAIL (in any case, for a required runner or not) is rejected with a non-zero
\* exit code and the lock is not stamped.
C4_FailRecordRejected ==
  (ProofOnPending /\ FailNames(last.proof) # {}) =>
     /\ last.code # 0
     /\ last.msg \in {"incomplete", "failures"}
     /\ Pending(files, LastPath)
     /\ proofs = {}

\* a proof was rejected for a lower-case fail record of a runner that is not
\* required, every required runner having a record
C4_Witness ==
  /\ ProofOnPending
  /\ last.msg = "failures"
  /\ RequiredOf(last) # <<>>
  /\ Unmatched(RequiredOf(last), last.proof) = {}
  /\ \E j \in DecidingStatus(last.proof) :
        /\ last.proof[j].val = lowerFail
        /\ \A i \in DOMAIN RequiredOf(last) :
              toLowerCase(RequiredOf(last)[i].name) # toLowerCase(RecordName(last.proof, j))

\* C5: a rejected release lists every missing runner and every FAIL record, also
\* when the proof text has both.
C5_RejectionListsEveryIssue ==
  (ProofOnPending /\ last.code # 0 /\ ~last.threw) =>
     LET required == RequiredOf(last)
     IN Range(last.names) =
          {required[i].name : i \in Unmatched(required, last.proof)}
          \cup FailNames(last.proof)

----------------------------------------------------------------------------
(* Releases that change nothing, allowed checks, self-run releases *)

C6_Step ==
  /\ (ProofStep /\ Pending(files, StepPath) /\ last'.code # 0) =>
        /\ files' = files
        /\ proofs' = proofs
        /\ Pending(files', StepPath)
  /\ (/\ ProofOnPending
      /\ last.code # 0
      /\ CheckStep
      /\ StepPath = LastPath) => last'.code # 0

\* C6: a rejected release leaves the lock file as it was, still PENDING, writes no
\* proof artifact, and a check of the topic that follows it is still blocked.
C6_RejectedReleaseChangesNothing == [][C6_Step]_vars

\* a release with proof text has just been rejected, and the lock is PENDING
C6_Witness ==
  /\ ProofOnPending
  /\ last.msg \in {"incomplete", "failures"}
  /\ last.code # 0
  /\ Pending(files, LastPath)
  /\ proofs = {}

C7_Step ==
  ((ProofStep \/ SelfRunStep) /\ Validated(files, StepPath)) =>
     /\ last'.code = 0
     /\ files' = files
     /\ proofs' = proofs

\* C7: a release of a VALIDATED topic, with proof text or as a self-run, exits 0
\* and changes nothing: the lock is not stamped a second time.
C7_ReleaseOfValidatedIsNoOp == [][C7_Step]_vars

\* a release with proof text has just found the lock VALIDATED, stamped once
C7_Witness ==
  /\ last.given
  /\ last.proof # <<>>
  /\ last.code = 0
  /\ Validated(files, LastPath)
  /\ Cardinality({i \in DOMAIN files[LastPath] : files[LastPath][i].k = MARKER}) = 1

C8_Step ==
  (ProofStep /\ Unlocked(files, StepPath)) =>
     /\ last'.code = 0
     /\ files' = files
     /\ proofs' = proofs
     /\ Unlocked(files', StepPath)

\* C8: a release with proof text of a topic that has no lock exits 0, creates no
\* lock file and no proof artifact: the topic stays UNLOCKED.
C8_ReleaseWithoutLockIsNoOp == [][C8_Step]_vars

\* a release with proof text has just found no lock and left none
C8_Witness ==
  /\ last.given
  /\ last.proof # <<>>
  /\ last.cmd \in {"lease", "release"}
  /\ last.code = 0
  /\ Unlocked(files, LastPath)
  /\ files = NoFiles

C9_Step ==
  (CheckStep /\ Validated(files, StepPath)) =>
     /\ last'.code = 0
     /\ Unlocked(files', StepPath)
     /\ audit' # audit

\* C9: a check of a VALIDATED topic allows the operation and archives the lock:
\* the lock file is copied to the audit directory and removed, so the topic is
\* UNLOCKED afterwards.
C9_AllowedCheckArchives == [][C9_Step]_vars

\* the lines of a stamped lock that name a runner
NameLines(content) ==
  {i \in DOMAIN content :
     content[i].k \in {"RUNNER_" \o ToString(n) \o "_NAME" : n \in 0..Len(content)}}

C10_Step ==
  (SelfRunStep /\ Pending(files, StepPath)) =>
     LET results == last'.results
         before == files[StepPath]
         after == files'[StepPath]
     IN /\ (\E i \in DOMAIN results : ~results[i].passed) =>
              /\ last'.code # 0
              /\ files' = files
        /\ (\A i \in DOMAIN results : results[i].passed) =>
              /\ last'.code = 0
              /\ Validated(files', StepPath)
              /\ SubSeq(after, 1, Len(before)) = before
              /\ Line("STATUS", <<"VALIDATED">>) \in Range(after)
              /\ Cardinality(NameLines(after)) = Len(results)
              /\ \A i \in DOMAIN results :
                    Line("RUNNER_" \o ToString(i - 1) \o "_NAME", results[i].name) \in Range(after)
              /\ Len(results) = Len(phaseRunners(Cfg._runners, last'.topic))

\* C10: a self-run release of a PENDING topic runs the runners of the phase; if
\* one fails it exits non-zero and leaves the lock PENDING and unmodified; if all
\* pass it stamps the lock VALIDATED with one result entry per executed runner
\* and exits 0.
C10_SelfRunRelease == [][C10_Step]_vars

\* a self-run release has just stamped the lock with the results of two runners
C10_Witness ==
  /\ last.cmd = "release"
  /\ last.given
  /\ last.proof = <<>>
  /\ last.pre = "pending"
  /\ last.code = 0
  /\ Len(last.results) = 2
  /\ Validated(files, LastPath)
  /\ Cardinality(NameLines(files[LastPath])) = 2

----------------------------------------------------------------------------
(* The runner engine seen through the self-run release *)

C11_Step ==
  (SelfRunStep /\ Pending(files, StepPath)) =>
     LET results == last'.results
         configured == phaseRunners(Cfg._runners, last'.topic)
     IN /\ Len(results) <= Len(configured)
        /\ \A i \in DOMAIN results : results[i].name = configured[i].name
        /\ \A i \in DOMAIN results : i < Len(results) => results[i].passed
        /\ last'.code = 0 <=>
              /\ Len(results) = Len(configured)
              /\ \A i \in DOMAIN results : results[i].passed

\* C11: a self-run executes the runners of the phase in configured order and
\* stops at the first failure: the results are a prefix of the configured
\* runners, one per executed runner, no runner after a failing one has a result,
\* and the run counts as passed exactly when every runner of the phase has a
\* passing result.
C11_SelfRunFailFast == [][C11_Step]_vars

\* a self-run has just stopped at the failure of the first of two runners
C11_Witness ==
  /\ last.cmd = "release"
  /\ last.msg = "selfrun-failed"
  /\ Len(phaseRunners(Cfg._runners, last.topic)) = 2
  /\ Len(last.results) = 1
  /\ ~last.results[1].passed
  /\ last.code # 0

----------------------------------------------------------------------------
(* The exit-code contract *)

\* the proof text of this step is one the gate rejects
RejectedProof ==
  \/ Unmatched(RequiredOf(last'), last'.proof) # {}
  \/ FailNames(last'.proof) # {}

\* every denying outcome of this step ends non-zero
DenyStep ==
  /\ (CheckStep /\ ~Validated(files, StepPath)) => last'.code # 0
  /\ (ProofStep /\ Pending(files, StepPath) /\ RejectedProof) => last'.code # 0
  /\ (SelfRunStep /\ Pending(files, StepPath)
        /\ \E i \in DOMAIN last'.results : ~last'.results[i].passed) => last'.code # 0

\* every allowing outcome of this step but the accepted proof ends with zero
AllowStep ==
  /\ (CheckStep /\ Validated(files, StepPath)) => last'.code = 0
  /\ ((ProofStep \/ SelfRunStep) /\ Unlocked(files, StepPath)) => last'.code = 0
  /\ ((ProofStep \/ SelfRunStep) /\ Validated(files, StepPath)) => last'.code = 0

\* an accepted proof ends with zero
AcceptStep ==
  (ProofStep /\ Pending(files, StepPath) /\ ~RejectedProof) => last'.code = 0

\* C12: every DENY (first check, repeated check on PENDING, rejected proof,
\* failed self-run) ends with a non-zero exit code and every ALLOW (check on
\* VALIDATED, accepted proof, release with nothing to release, release on a
\* VALIDATED lock) ends with zero.
C12_ExitCodeContract == [][DenyStep /\ AllowStep /\ AcceptStep]_vars

----------------------------------------------------------------------------
(* Locks of distinct topics *)

\* the topic an invocation of lease or release is about
TopicOfOutcome(o) ==
  IF o.cmd = "lease" THEN o.topic
  ELSE IF o.topic = "push" THEN "pre-push"
  ELSE "pre-commit"

\* what the gate observes as the lock of a topic: no lock, or the lock file's content
LockOf(fs, topic) ==
  IF LockPath(PhaseOf(topic)) \in DOMAIN fs THEN <<fs[LockPath(PhaseOf(topic))]>> ELSE <<>>

\* a check or release of one of the topics of ts leaves the locks of the other
\* topics of ts as they are
IndependentStep(ts) ==
  (Ran /\ last'.cmd \in {"lease", "release"} /\ TopicOfOutcome(last') \in ts) =>
     \A t2 \in ts \ {TopicOfOutcome(last')} : LockOf(files', t2) = LockOf(files, t2)

\* C13: for any two different topics of a project, git-hook topics or custom
\* ones, a check or release of one never creates, modifies, validates or removes
\* the lock of the other.
C13_TopicLocksIndependent == [][IndependentStep(Topics)]_vars

----------------------------------------------------------------------------
(* Locks and revisions *)

\* the stamped lock files whose name carries the short hash of revision h
StampedAt(fs, h) ==
  {p \in DOMAIN fs : Validated(fs, p) /\ shortHashOf(h) \in Range(p.name)}

C14_Step ==
  (CheckStep /\ StampedAt(files, head) = {}) =>
     /\ last'.code # 0
     /\ Pending(files', StepPath)
     /\ shortHashOf(head) \in Range(StepPath.name)

\* C14: a check at a revision for which no lock was stamped is blocked and leaves
\* a PENDING lock of that revision, whatever was stamped at other revisions: once
\* HEAD has advanced, the lock stamped before the commit allows nothing.
C14_ProofBoundToRevision == [][C14_Step]_vars

\* a check has just been blocked after a commit, the lock stamped at the
\* revision before it still being there
C14_Witness ==
  /\ last.cmd = "lease"
  /\ ~last.given
  /\ last.code # 0
  /\ last.pre = "none"
  /\ head = 1
  /\ StampedAt(files, 0) # {}
  /\ Pending(files, LastPath)

----------------------------------------------------------------------------
(* Worktrees: several checkouts of one project at the same revision (the      *)
(* first commit), sharing the machine's file system and environment.          *)

\* the worktrees of two projects: P has a package.json naming it, Q has none
Worktrees ==
  { MainRoot,
    Root("/w/feature", <<"feature">>, <<"p">>, "P"),
    Root("/x/main", <<"main">>, <<>>, "Q"),
    Root("/y/main", <<"main">>, <<>>, "Q"),
    Root("/y/hotfix", <<"hotfix">>, <<>>, "Q") }

\* the other worktrees of the project of root
Siblings(root) == {r \in Worktrees : r.proj = root.proj /\ r.path # root.path}

TreeEnvs ==
  { NoEnv,
    [NoEnv EXCEPT !["XDG_RUNTIME_DIR"] = "/run/user/1"],
    [NoEnv EXCEPT !["AGENT_LEASE_LOCK_DIR"] = "/var/locks"],
    [NoEnv EXCEPT !["AGENT_LEASE_PROJECT"] = "q"] }

\* the config file checked in with the project: the lock directory mode and the
\* project name (written by init, or absent)
TreeConfigs ==
  { [Config(<<Runner(NameA, "commit", FALSE), Runner(NameB, "push", FALSE)>>, FALSE, NoTopics)
       EXCEPT !.lockDir = d, !.projectName = n] :
      d \in {"local", "auto", "/srv/locks"}, n \in {<<>>, <<"p">>} }

InitTrees ==
  /\ files = NoFiles
  /\ proofs = {}
  /\ audit = {}
  /\ last = NoOutcome
  /\ now = 0
  /\ head = 1
  /\ config \in TreeConfigs
  /\ cwd \in Worktrees
  /\ env \in TreeEnvs
  /\ libcall = NoCall
  /\ running = NoProcs

\* cd to another worktree of the project
ChangeDir ==
  /\ cwd' \in Siblings(cwd)
  /\ UNCHANGED <<files, proofs, audit, last, now, head, config, env, libcall, running>>

NextTrees ==
  \/ Lease({<<>>})
  \/ ReleaseSelfRun
  \/ ChangeDir

SpecTrees == InitTrees /\ [][NextTrees]_vars

\* what a check or release run in the worktree at root observes as the lock of
\* a phase
LockSeenFrom(root, fs, phase) ==
  LET c == loadConfigChain(config, root, env)
      p == getLockPath(c.projectName, c.lockDir, phase, shortHashOf(head))
  IN IF p \in DOMAIN fs THEN <<fs[p]>> ELSE <<>>

C15_Step ==
  (Ran /\ last'.cmd \in {"lease", "release"}) =>
     \A r \in Siblings(cwd), phase \in {"commit", "push"} :
        LockSeenFrom(r, files', phase) = LockSeenFrom(r, files, phase)

\* C15: two worktrees of a project resolve to different lock files, also with
\* the same lock directory and at the same revision: a lock created or validated
\* in one worktree is never observed by a check or release in another.
C15_WorktreeLocksIndependent == [][C15_Step]_vars

----------------------------------------------------------------------------
(* The lock state machine *)

StateOf(fs, p) ==
  IF Unlocked(fs, p) THEN "UNLOCKED"
  ELSE IF Validated(fs, p) THEN "VALIDATED"
  ELSE "PENDING"

\* the moves of a lock state a check or release may make (staying included)
AllowedMoves ==
  { <<"UNLOCKED", "UNLOCKED">>, <<"UNLOCKED", "PENDING">>,
    <<"PENDING", "PENDING">>, <<"PENDING", "VALIDATED">>,
    <<"VALIDATED", "VALIDATED">>, <<"VALIDATED", "UNLOCKED">> }

C16_Step ==
  (Ran /\ last'.cmd \in {"lease", "release"}) =>
     \A t \in Topics :
        <<StateOf(files, LockPath(PhaseOf(t))), StateOf(files', LockPath(PhaseOf(t)))>>
           \in AllowedMoves

\* C16: no check or release invocation takes the lock of a topic from UNLOCKED
\* directly to VALIDATED, from VALIDATED back to PENDING, or from PENDING to
\* UNLOCKED: the state only moves UNLOCKED -> PENDING -> VALIDATED -> UNLOCKED.
C16_LockStateMoves == [][C16_Step]_vars

\* a check has just found the lock VALIDATED and left it VALIDATED
C16_Witness ==
  /\ last.cmd = "lease"
  /\ ~last.given
  /\ last.pre = "validated"
  /\ StateOf(files, LastPath) = "VALIDATED"

----------------------------------------------------------------------------
(* What a denied invocation prints *)

\* the last invocation was denied: a blocked check, a rejected proof or a failed
\* self-run
Denied ==
  /\ last.code # 0
  /\ \/ last.cmd = "lease" /\ ~last.given
     \/ ProofOnPending /\ ~last.threw
     \/ last.cmd = "release" /\ last.given /\ last.proof = <<>> /\ last.pre = "pending"

\* C17: every DENY outcome (blocked check, rejected incomplete proof, rejected
\* failing proof, failed self-run) prints the statement that bypass flags are
\* forbidden without human sign-off, the command to run next and the runner
\* context.
C17_DenyPrintsForbiddenAndRemedy ==
  Denied => {"forbidden", "remediation", "runners"} \subseteq printed(last.cmd, last.msg)

----------------------------------------------------------------------------
(* Calls of the library functions, one at a time, over their inputs *)

\* a deterministic tool and a reviewer whose output is read for a verdict
RunnerSpecs == {Runner(NameA, "commit", FALSE), Runner(UpperB, "commit", TRUE)}

\* what a process prints: a steering block with a verdict, output without a
\* block, or nothing
AllOutputs == Outputs \cup {"VERDICT: maybe", "ok", ""}

AllOutcomes ==
  [threw : {FALSE}, status : ExitStatuses, output : AllOutputs, duration : Durations]
  \cup [threw : {TRUE}, status : {KilledStatus}, output : {""}, duration : Durations]

ExecuteCalls ==
  {Call("executeRunner", [runner |-> r, o |-> o], FALSE, <<>>) :
     r \in RunnerSpecs, o \in AllOutcomes}

\* the longest template, in tokens
MaxTemplateLen == 2

\* the tokens of a template: every placeholder the two expanders know, one
\* neither knows, and a word
TemplateTokens ==
  {"echo", "{{diff}}", "{{files}}", "{{project}}", "{{branch}}", "{{hash}}",
   "{{runners}}", "{{topic}}", "{{args}}", "{{env:CI_TOKEN}}", "{{foo}}"}

Templates == UNION {[1..n -> TemplateTokens] : n \in 0..MaxTemplateLen}

\* getGitContext() of a repository with staged changes on branch main
PlainContext ==
  [diff |-> <<"d1">>, diffPush |-> <<"d2">>, files |-> <<"a.js">>, branch |-> <<"main">>,
   hash |-> <<"h1">>, topic |-> <<"pre-commit">>, args |-> <<"now">>]

\* texts a diff or a branch name can be: nothing, the dollar patterns of a
\* replacement string, placeholder syntax
SpecialTexts ==
  {<<>>, <<"$$">>, <<"$&">>, <<"$'">>, <<DollarBefore>>, <<"{{topic}}">>, <<"{{env:CI_TOKEN}}">>}

Contexts ==
  {PlainContext} \cup {[PlainContext EXCEPT ![f] = v] : f \in {"diff", "branch"}, v \in SpecialTexts}

\* CI_TOKEN unset, set, and set to a text that reads as a dollar pattern
CallEnvs == {[NoEnv EXCEPT !["CI_TOKEN"] = v] : v \in {"", "tok", "$&"}}

\* a loaded config with one runner
DemoConfig ==
  [projectName |-> <<"demo">>,
   _runners |-> << [name |-> "lint", command |-> <<"eslint", "{{files}}">>, on |-> "commit"] >>]

ExpandCalls ==
  {Call("expandCommand",
        [template |-> t, context |-> c, projectName |-> DemoConfig.projectName, phase |-> p],
        FALSE, <<>>) :
     t \in Templates, c \in Contexts, p \in {"commit", "push"}}

InterpolateCalls ==
  {Call("interpolateTemplate",
        [template |-> t, context |-> c, config |-> DemoConfig,
         extra |-> [topic |-> tp, args |-> c.args]],
        FALSE, <<>>) :
     t \in Templates, c \in Contexts, tp \in {<<"pre-commit">>, <<"pre-push">>}}

\* the longest runner list of a legacy config
MaxLegacyRunners == 2

\* the runner entries of legacy configs: with and without a name, with and
\* without a trigger phase
LegacyRunners ==
  {Runner(n, o, FALSE) : n \in {NameA, NameB, <<>>}, o \in {"", "commit", "push", "both"}}

\* the legacy configs (no topics mapping) and the configs with one
ResolveConfigs ==
  {Config(rs, FALSE, NoTopics) :
     rs \in UNION {[1..n -> LegacyRunners] : n \in 0..MaxLegacyRunners}}
  \cup {c \in Configs : c.hasTopics}

ResolveCalls ==
  {Call("getRunnersForTopic", [config |-> c, topic |-> t], FALSE, <<>>) :
     c \in ResolveConfigs, t \in {"pre-commit", "pre-push"}}

\* staged and branch diffs of one character, of 100,000 and of 100,001
DiffContexts ==
  {[PlainContext EXCEPT !.diff = d, !.diffPush = d] :
     d \in {<<"x">>, <<Block>>, <<Block, "x">>}}

SpawnCalls ==
  {Call("spawn",
        [template |-> t, context |-> c, projectName |-> DemoConfig.projectName, phase |-> p],
        FALSE, <<>>) :
     t \in Templates, c \in DiffContexts, p \in {"commit", "push"}}

\* the commands that work on the lock directory, the values of --lock-dir, of
\* lockDir in the config file ("" when absent) and of the two environment
\* variables resolveLockDir reads
DirCommands == {"lease", "release", "status", "clear"}
DirFlags == {"", "/flag/locks"}
DirSettings == {"", "local", "xdg", "auto", "/srv/locks"}
DirEnvs ==
  {[NoEnv EXCEPT !["AGENT_LEASE_LOCK_DIR"] = a, !["XDG_RUNTIME_DIR"] = x] :
     a \in {"", "/env/locks"}, x \in {"", "/run/user/1"}}

DirCalls ==
  {Call("lockDir", [cmd |-> c, flag |-> f], FALSE, <<>>) : c \in DirCommands, f \in DirFlags}

\* the longest proof text given to parseAgentProof, in lines
MaxRawLines == 3

\* the lines the proof texts are made of: labelled lines with blanks and quotes
\* around them, a line that only mentions a label, and the empty line
RawLines ==
  { <<"Runner:", " ">> \o NameA,
    <<"'", "Runner:", " ">> \o NameA,
    <<" ", "Runner:">> \o NameB \o <<" ">>,
    <<"Status:", " ">> \o PASS,
    <<"Status:">> \o PASS \o <<"'">>,
    <<" ", "Status:", " ">> \o lowerFail,
    <<"Output:", " ">> \o NameC,
    <<"Summary:", " ">> \o NameC,
    <<"#", " ", "Runner:", " ">> \o NameA,
    <<>> }

RawTexts == UNION {[1..n -> RawLines] : n \in 0..MaxRawLines}

ParseCalls == {Call("parseAgentProof", [text |-> t], FALSE, <<>>) : t \in RawTexts}

\* the longest list of runners a configuration source holds
MaxSourceRunners == 2

\* every list of at most MaxSourceRunners items
Lists(items) == UNION {[1..n -> items] : n \in 0..MaxSourceRunners}

Source(hasRunners, runners, hasTopics, topics, hasValidation, validation) ==
  [hasRunners |-> hasRunners, runners |-> runners, hasTopics |-> hasTopics, topics |-> topics,
   hasValidation |-> hasValidation, validation |-> validation]

\* the entries of a runners array: with or without a name, with or without "on"
ArrayItems ==
  {[name |-> n, command |-> <<"x">>, on |-> o, llm |-> FALSE] :
     n \in {<<>>, NameA, NameB}, o \in {"", "push"}}

\* the entries of a topic's runners: objects, one without a name, and a bare name
TopicItems ==
  { [obj |-> TRUE, name |-> NameA, command |-> <<"x">>],
    [obj |-> TRUE, name |-> NameA, command |-> <<"y">>],
    [obj |-> TRUE, name |-> NameB, command |-> <<"x">>],
    [obj |-> TRUE, name |-> <<>>, command |-> <<"x">>],
    [obj |-> FALSE, name |-> NameA, command |-> <<>>] }

\* topics objects with the keys pre-commit and deploy
TopicsObjects ==
  {<<[topic |-> "pre-commit", runners |-> r1], [topic |-> "deploy", runners |-> r2]>> :
     r1 \in Lists(TopicItems), r2 \in Lists(TopicItems)}

\* validation objects: the keys of an object are distinct
ValidationObjects ==
  {<<>>} \cup
  {<<[name |-> NameA, command |-> c]>> : c \in {<<>>, <<"x">>}} \cup
  {<<[name |-> NameA, command |-> c1], [name |-> NameB, command |-> c2]>> :
     c1 \in {<<>>, <<"x">>}, c2 \in {<<>>, <<"x">>}}

\* the entries of AGENT_LEASE_RUNNERS
EnvEntries ==
  { <<"a", ":", "x">>, <<" ", "a", " ", ":", "x">>, <<"b", ":", "x", ":", "y">>, <<"a">> }

\* the values of AGENT_LEASE_RUNNERS: entries joined by commas
EnvValues == {join(es, ",") : es \in Lists(EnvEntries) \ {<<>>}}

SomeTopics == <<[topic |-> "pre-commit", runners |-> <<[obj |-> TRUE, name |-> NameC, command |-> <<"x">>]>>]>>
SomeValidation == <<[name |-> NameC, command |-> <<"x">>]>>

\* the configurations normalizeRunners is called on: each source varied, with
\* and without the sources of lower priority
Sources ==
  {Source(TRUE, r, ht, IF ht THEN SomeTopics ELSE <<>>, hv, IF hv THEN SomeValidation ELSE <<>>) :
     r \in Lists(ArrayItems), ht \in BOOLEAN, hv \in BOOLEAN}
  \cup {Source(FALSE, <<>>, TRUE, t, hv, IF hv THEN SomeValidation ELSE <<>>) :
          t \in TopicsObjects, hv \in BOOLEAN}
  \cup {Source(FALSE, <<>>, FALSE, <<>>, TRUE, v) : v \in ValidationObjects}
  \cup {Source(FALSE, <<>>, FALSE, <<>>, FALSE, <<>>)}

NormalizeCalls ==
  {Call("normalizeRunners", [config |-> c, value |-> <<>>], FALSE, <<>>) : c \in Sources}
  \cup {Call("normalizeRunners", [config |-> c, value |-> v], FALSE, <<>>) :
          v \in EnvValues,
          c \in {Source(hr, IF hr THEN <<[name |-> NameC, command |-> <<"x">>, on |-> "", llm |-> FALSE]>>
                            ELSE <<>>, FALSE, <<>>, FALSE, <<>>) : hr \in BOOLEAN}}

\* the keys of a lock: lock directory, project, topic and revision; a project
\* name can contain hyphens and the word push, a topic can be a custom one
KeyProjects == {<<"p">>, <<"p", "-", "q">>, <<"p", "-", "push">>}
KeyTopics == {"pre-commit", "pre-push", "deploy", "push"}
KeyDirs == {"locks", "/tmp"}

Keys == [lockDir : KeyDirs, project : KeyProjects, topic : KeyTopics, revision : 0..MaxCommits]

\* two invocations, each locating the lock of its key
LocateCalls == {Call("getLockPath", [a |-> a, b |-> b], FALSE, <<>>) : a \in Keys, b \in Keys}

InitCalls ==
  /\ files = NoFiles
  /\ proofs = {}
  /\ audit = {}
  /\ last = NoOutcome
  /\ now = 0
  /\ head = 0
  /\ cwd = MainRoot
  /\ running = NoProcs
  /\ \/ config \in Configs /\ env = NoEnv /\ libcall \in ExecuteCalls
     \/ config = Config(<<>>, FALSE, NoTopics) /\ env \in CallEnvs /\ libcall \in ExpandCalls \cup InterpolateCalls
     \/ config = Config(<<>>, FALSE, NoTopics) /\ env = NoEnv /\ libcall \in ParseCalls
     \/ env = NoEnv /\ libcall \in ResolveCalls /\ config = libcall.args.config
     \/ /\ config = Config(<<>>, FALSE, NoTopics)
        /\ env = [NoEnv EXCEPT !["CI_TOKEN"] = "tok"]
        /\ libcall \in SpawnCalls
     \/ config = Config(<<>>, FALSE, NoTopics) /\ env = NoEnv /\ libcall \in NormalizeCalls
     \/ config = Config(<<>>, FALSE, NoTopics) /\ env = NoEnv /\ libcall \in LocateCalls
     \/ /\ config \in {[Config(<<>>, FALSE, NoTopics) EXCEPT !.lockDir = d] : d \in DirSettings}
        /\ env \in DirEnvs
        /\ libcall \in DirCalls

\* executeRunner(runner, context, projectName, phase) returns
Execute ==
  /\ libcall.fn = "executeRunner"
  /\ ~libcall.done
  /\ libcall' = [libcall EXCEPT !.done = TRUE,
                                !.result = executeRunner(libcall.args.runner, libcall.args.o)]
  /\ UNCHANGED <<files, proofs, audit, last, now, head, config, cwd, env, running>>

\* expandCommand(command, context, projectName, phase) returns
Expand ==
  /\ libcall.fn = "expandCommand"
  /\ ~libcall.done
  /\ LET a == libcall.args
     IN libcall' = [libcall EXCEPT
                      !.done = TRUE,
                      !.result = expandCommand(a.template, a.context, a.projectName, a.phase, env)]
  /\ UNCHANGED <<files, proofs, audit, last, now, head, config, cwd, env, running>>

\* interpolateTemplate(template, context, config, extra) returns
Interpolate ==
  /\ libcall.fn = "interpolateTemplate"
  /\ ~libcall.done
  /\ LET a == libcall.args
     IN libcall' = [libcall EXCEPT
                      !.done = TRUE,
                      !.result = interpolateTemplate(a.template, a.context, a.config, a.extra, env)]
  /\ UNCHANGED <<files, proofs, audit, last, now, head, config, cwd, env, running>>

\* parseAgentProof(text) returns
Parse ==
  /\ libcall.fn = "parseAgentProof"
  /\ ~libcall.done
  /\ libcall' = [libcall EXCEPT !.done = TRUE, !.result = parseAgentProofText(libcall.args.text)]
  /\ UNCHANGED <<files, proofs, audit, last, now, head, config, cwd, env, running>>

\* loadConfigChain() of the config file, then getRunnersForTopic(config, topic)
Resolve ==
  /\ libcall.fn = "getRunnersForTopic"
  /\ ~libcall.done
  /\ LET loaded == loadConfigChain(config, cwd, env)
     IN libcall' = [libcall EXCEPT
                      !.done = TRUE,
                      !.result = [config |-> loaded,
                                  runners |-> getRunnersForTopic(loaded, libcall.args.topic)]]
  /\ UNCHANGED <<files, proofs, audit, last, now, head, config, cwd, env, running>>

\* a command loads the config and settles its lock directory
ResolveDir ==
  /\ libcall.fn = "lockDir"
  /\ ~libcall.done
  /\ libcall' = [libcall EXCEPT
                   !.done = TRUE,
                   !.result = lockDirFor(libcall.args.cmd, libcall.args.flag,
                                         loadConfigChain(config, cwd, env))]
  /\ UNCHANGED <<files, proofs, audit, last, now, head, config, cwd, env, running>>

\* executeRunner(runner, context, projectName, phase) reaches spawnSync
Spawn ==
  /\ libcall.fn = "spawn"
  /\ ~libcall.done
  /\ LET a == libcall.args
     IN libcall' = [libcall EXCEPT
                      !.done = TRUE,
                      !.result = finalCommand(a.template, a.context, a.projectName, a.phase, env)]
  /\ UNCHANGED <<files, proofs, audit, last, now, head, config, cwd, env, running>>

\* normalizeRunners(config) returns; value is AGENT_LEASE_RUNNERS, empty when unset
Normalize ==
  /\ libcall.fn = "normalizeRunners"
  /\ ~libcall.done
  /\ libcall' = [libcall EXCEPT
                   !.done = TRUE,
                   !.result = normalizeRunnersFrom(libcall.args.config, libcall.args.value)]
  /\ UNCHANGED <<files, proofs, audit, last, now, head, config, cwd, env, running>>

\* the lock path of a key: cmd_lease maps the topic to the phase and
\* getLockPath(projectName, lockDir, phase) names the file
pathOf(key) == getLockPath(key.project, key.lockDir, PhaseOf(key.topic), shortHashOf(key.revision))

\* getLockPath returns in both invocations
Locate ==
  /\ libcall.fn = "getLockPath"
  /\ ~libcall.done
  /\ libcall' = [libcall EXCEPT
                   !.done = TRUE,
                   !.result = [a |-> pathOf(libcall.args.a), b |-> pathOf(libcall.args.b)]]
  /\ UNCHANGED <<files, proofs, audit, last, now, head, config, cwd, env, running>>

NextCalls ==
  \/ Spawn
  \/ Execute
  \/ Expand
  \/ Interpolate
  \/ Parse
  \/ Resolve
  \/ ResolveDir
  \/ Normalize
  \/ Locate

SpecCalls == InitCalls /\ [][NextCalls]_vars

\* executeRunner has returned
Executed == libcall.fn = "executeRunner" /\ libcall.done

\* C18: for every runner, reviewers included, the result's pass flag is true if
\* and only if the process exit status is zero.
C18_PassedIffExitZero ==
  Executed => (libcall.result.passed <=> libcall.args.o.status = 0)

\* C18, amended: the pass flag is true if and only if the exit status is zero,
\* except for a reviewer (llm) whose output carries a verdict: its pass flag is
\* true if and only if the verdict is PASS, whatever the exit status.
C18_PassedIffExitZeroOrVerdict ==
  Executed =>
     LET runner == libcall.args.runner
         o == libcall.args.o
     IN IF runner.llm /\ ~o.threw /\ verdictOf(o.output) # ""
        THEN libcall.result.passed <=> verdictOf(o.output) = "PASS"
        ELSE libcall.result.passed <=> (~o.threw /\ o.status = 0)

\* a reviewer has failed on its verdict although its process exited with zero
C18_Witness ==
  /\ Executed
  /\ libcall.args.runner.llm
  /\ libcall.args.o.status = 0
  /\ libcall.args.o.output = "VERDICT: FAIL"
  /\ ~libcall.result.passed

\* expandCommand or interpolateTemplate has returned
Expanded == libcall.fn \in {"expandCommand", "interpolateTemplate"} /\ libcall.done

\* the placeholders the called function names
Recognised(fn) ==
  {"{{diff}}", "{{files}}", "{{project}}", "{{branch}}", "{{hash}}", "{{topic}}", "{{args}}"}
    \cup DOMAIN EnvVarOf
    \cup (IF fn = "interpolateTemplate" THEN {"{{runners}}"} ELSE {})

\* the value of environment variable v as a text: nothing when it is unset
EnvText(v) == IF processEnv(env, v) = "" THEN <<>> ELSE <<processEnv(env, v)>>

\* the value the call's context gives a placeholder
ContextValue(fn, a, ph) ==
  LET push == IF fn = "expandCommand" THEN a.phase = "push" ELSE a.extra.topic = <<"pre-push">>
  IN CASE ph = "{{diff}}" -> IF push THEN a.context.diffPush ELSE a.context.diff
       [] ph = "{{files}}" -> a.context.files
       [] ph = "{{project}}" -> IF fn = "expandCommand" THEN a.projectName ELSE a.config.projectName
       [] ph = "{{branch}}" -> a.context.branch
       [] ph = "{{hash}}" -> a.context.hash
       [] ph = "{{topic}}" -> IF fn = "expandCommand" THEN a.context.topic ELSE a.extra.topic
       [] ph = "{{args}}" -> IF fn = "expandCommand" THEN a.context.args ELSE a.extra.args
       [] ph = "{{runners}}" -> runnersFormatted(a.config._runners)
       [] ph \in DOMAIN EnvVarOf -> EnvText(EnvVarOf[ph])

\* the template with every recognised placeholder replaced by its value and
\* everything else as it stands
Expected(fn, a) ==
  Flatten([i \in DOMAIN a.template |->
             IF a.template[i] \in Recognised(fn) THEN ContextValue(fn, a, a.template[i])
             ELSE <<a.template[i]>>])

\* C19: for every template and context, expansion returns the template with
\* every recognised placeholder replaced by its context value and every
\* unrecognised placeholder left as it stands.
C19_ExpansionReplacesRecognisedOnly ==
  Expanded => libcall.result = Expected(libcall.fn, libcall.args)

\* the dollar patterns and the placeholder syntax a context value can carry
Active == {"$$", "$&", "$'", DollarBefore} \cup Recognised("interpolateTemplate")

\* no value of the call's context carries a dollar pattern or a placeholder
PlainValues(a) ==
  \A f \in DOMAIN a.context : \A i \in DOMAIN a.context[f] : a.context[f][i] \notin Active

\* C19 for contexts of plain values
C19_PlainContexts ==
  (Expanded /\ PlainValues(libcall.args)) => libcall.result = Expected(libcall.fn, libcall.args)

\* C20: an environment-variable placeholder expands to the variable's value
\* when the variable is set and to nothing when it is unset, and the placeholder
\* text never remains in the output.
C20_EnvPlaceholderExpands ==
  Expanded =>
     /\ \A i \in DOMAIN libcall.result : libcall.result[i] \notin DOMAIN EnvVarOf
     /\ (\A i \in DOMAIN libcall.args.template :
           libcall.args.template[i] \notin Recognised(libcall.fn) \ DOMAIN EnvVarOf)
        => libcall.result = Expected(libcall.fn, libcall.args)

\* a template has been expanded with CI_TOKEN unset: its placeholder is gone and
\* the unknown placeholder next to it stands
C20_Witness ==
  /\ Expanded
  /\ env["CI_TOKEN"] = ""
  /\ libcall.args.template = <<"{{env:CI_TOKEN}}", "{{foo}}">>
  /\ libcall.result = <<"{{foo}}">>

\* parseAgentProof has returned
Parsed == libcall.fn = "parseAgentProof" /\ libcall.done

\* a line without the blanks around it
Trimmed(l) ==
  LET inked == {i \in DOMAIN l : l[i] # " "}
  IN IF inked = {} THEN <<>>
     ELSE SubSeq(l, CHOOSE i \in inked : \A j \in inked : i <= j,
                    CHOOSE i \in inked : \A j \in inked : i >= j)

\* the trimmed line begins with the label
Begins(l, label) == Trimmed(l) # <<>> /\ Head(Trimmed(l)) = label

\* what follows the label on the line, without the blanks around it
ValueOf(l) == Trimmed(Tail(Trimmed(l)))

\* the value of the last line of lines[from..to] that begins with the label,
\* nothing when there is none
LastValue(lines, from, to, label) ==
  LET at == {i \in from..to : Begins(lines[i], label)}
  IN IF at = {} THEN <<>> ELSE ValueOf(lines[CHOOSE i \in at : \A j \in at : i >= j])

\* the records of a text: one per line that begins with the runner-name label,
\* in order, with the status (in upper case) and the output of the lines up to
\* the next such line
RecordsOf(lines) ==
  LET at == {i \in DOMAIN lines : Begins(lines[i], "Runner:")}
      nth == [k \in 1..Cardinality(at) |->
                CHOOSE i \in at : Cardinality({j \in at : j < i}) = k - 1]
      end(k) == IF k = Cardinality(at) THEN Len(lines) ELSE nth[k + 1] - 1
  IN [k \in 1..Cardinality(at) |->
        [name |-> ValueOf(lines[nth[k]]),
         status |-> [i \in DOMAIN LastValue(lines, nth[k] + 1, end(k), "Status:") |->
                       toUpperCaseCh(LastValue(lines, nth[k] + 1, end(k), "Status:")[i])],
         output |-> LastValue(lines, nth[k] + 1, end(k), "Output:")]]

\* C21: for every input text the parsed records are, in order, exactly one per
\* line of the text that begins (after trimming) with the runner-name label; a
\* status or output line goes to the most recent record and is dropped when
\* there is none; the status is in upper case; every other line is ignored.
C21_RecordsPerRunnerLine ==
  Parsed => libcall.result = RecordsOf(libcall.args.text)

\* the text without the quote that starts it and the quote that ends it
Unquoted(raw) ==
  LET n == Len(raw)
      cut(i) == LET l == raw[i]
                    a == IF i = 1 /\ l # <<>> /\ Head(l) \in Quotes THEN 2 ELSE 1
                    b == IF i = n /\ Len(l) >= a /\ l[Len(l)] \in Quotes THEN Len(l) - 1 ELSE Len(l)
                IN SubSeq(l, a, b)
  IN [i \in DOMAIN raw |-> cut(i)]

\* C21, amended: the parsed records are those of the text after the quote
\* character that starts it and the quote character that ends it are removed.
C21_RecordsPerRunnerLineOfUnquoted ==
  Parsed => libcall.result = RecordsOf(Unquoted(libcall.args.text))

\* a text that starts with a quote has been parsed into two records: the quote
\* is gone, the status is in upper case, the second record has no status
C21_Witness ==
  /\ Parsed
  /\ libcall.args.text = << <<"'", "Runner:", " ">> \o NameA,
                            <<" ", "Status:", " ">> \o lowerFail,
                            <<" ", "Runner:">> \o NameB \o <<" ">> >>
  /\ libcall.result = << [name |-> NameA, status |-> FAIL, output |-> <<>>],
                         [name |-> NameB, status |-> <<>>, output |-> <<>>] >>

\* a config has been loaded and the runners of a topic resolved
Resolved == libcall.fn = "getRunnersForTopic" /\ libcall.done

\* the runner at position i of the config file triggers on the phase
TriggersOn(c, i, phase) == OnOf(c.runners[i]) \in {phase, "both"}

\* the runners of the config file that trigger on the phase, as normalised
LegacyFilter(c, phase) ==
  LET at == {i \in DOMAIN c.runners : TriggersOn(c, i, phase)}
      nth == [k \in 1..Cardinality(at) |->
                CHOOSE i \in at : Cardinality({j \in at : j < i}) = k - 1]
  IN [k \in 1..Cardinality(at) |-> normalizeRunners(c)[nth[k]]]

\* C22: for every legacy configuration the runners resolved for pre-commit and
\* pre-push after migration are the runners the legacy phase filter gives, and
\* a configuration that has a topic mapping keeps it unchanged.
C22_MigrationKeepsRunnerSets ==
  Resolved =>
     LET c == libcall.args.config
     IN IF c.hasTopics THEN libcall.result.config.topics = c.topics
        ELSE libcall.result.runners = LegacyFilter(c, PhaseOf(libcall.args.topic))

\* every runner of the config file has a name and no two share one
DistinctNames(c) ==
  /\ \A i \in DOMAIN c.runners : c.runners[i].name # <<>>
  /\ \A i, j \in DOMAIN c.runners : c.runners[i].name = c.runners[j].name => i = j

\* C22 for configurations whose runners have distinct names
C22_DistinctNames ==
  (Resolved /\ DistinctNames(libcall.args.config)) =>
     LET c == libcall.args.config
     IN IF c.hasTopics THEN libcall.result.config.topics = c.topics
        ELSE libcall.result.runners = LegacyFilter(c, PhaseOf(libcall.args.topic))

----------------------------------------------------------------------------
(* The lock store called directly, as the tests and other programs call it:   *)
(* createLock, releaseLock, archiveLock and clearAllLocks in any order on one *)
(* lock directory shared by two projects.                                     *)

\* the number of library calls made in a run
MaxLibCalls == 4

\* two projects, the name of one beginning with the name of the other
LibProjects == {<<"p">>, <<"p", "-", "q">>}

LibDir == "locks"

\* the phases locks are created, stamped and archived for
LibPhases == {"commit", "push"}

\* the phase argument of clearAllLocks: none, a trigger phase, a custom topic
ClearPhases == {"", "commit", "push", "deploy"}

\* one runner result as runRunners returns it
Result(n, passed, d) ==
  [name |-> n, passed |-> passed, output |-> "ok", hash |-> "ok", duration |-> d, hasProof |-> TRUE]

\* the result lists passed to releaseLock
ResultLists == { <<>>, <<Result(NameA, TRUE, 1), Result(NameB, FALSE, 2)>> }

InitLib ==
  /\ files = NoFiles
  /\ proofs = {}
  /\ audit = {}
  /\ last = NoOutcome
  /\ now = 0
  /\ head = 0
  /\ config = Config(<<>>, FALSE, NoTopics)
  /\ cwd = MainRoot
  /\ env = NoEnv
  /\ libcall = NoCall
  /\ running = NoProcs

\* one library call returns: the clock has moved
Returned(fn, args, result) ==
  /\ now < MaxLibCalls
  /\ now' = now + 1
  /\ libcall' = Call(fn, args, TRUE, result)
  /\ UNCHANGED <<last, head, config, cwd, env, running>>

\* createLock(projectName, lockDir, phase)
LibCreate ==
  \E pr \in LibProjects, ph \in LibPhases, r \in Randoms :
     /\ files' = createLock(files, pr, LibDir, ph, shortHashOf(head), <<now, r>>, now)
     /\ UNCHANGED <<proofs, audit>>
     /\ Returned("createLock", [project |-> pr, phase |-> ph],
                 [lockPath |-> getLockPath(pr, LibDir, ph, shortHashOf(head)), guid |-> <<now, r>>])

\* releaseLock(projectName, lockDir, runnerResults, phase)
LibRelease ==
  \E pr \in LibProjects, ph \in LibPhases, rs \in ResultLists :
     LET rel == releaseLock(files, proofs, pr, LibDir, rs, ph, shortHashOf(head), now)
     IN /\ files' = rel.fs
        /\ proofs' = rel.pf
        /\ UNCHANGED audit
        /\ Returned("releaseLock", [project |-> pr, phase |-> ph, results |-> rs],
                    [released |-> rel.released,
                     reason |-> IF rel.released THEN "" ELSE "No lock found"])

\* archiveLock(projectName, lockDir, projectRoot, phase)
LibArchive ==
  \E pr \in LibProjects, ph \in LibPhases :
     LET ar == archiveLock(files, audit, pr, LibDir, ph, shortHashOf(head), now)
     IN /\ files' = ar.fs
        /\ audit' = ar.au
        /\ UNCHANGED proofs
        /\ Returned("archiveLock", [project |-> pr, phase |-> ph],
                    [archived |-> ar.archived, archivePath |-> ar.archivePath])

\* clearAllLocks(projectName, lockDir, phase)
LibClearAll ==
  \E pr \in LibProjects, ph \in ClearPhases :
     LET cl == clearAllLocks(files, pr, LibDir, ph)
     IN /\ files' = cl.fs
        /\ UNCHANGED <<proofs, audit>>
        /\ Returned("clearAllLocks", [project |-> pr, phase |-> ph], [cleared |-> cl.cleared])

NextLib ==
  \/ LibCreate
  \/ LibRelease
  \/ LibArchive
  \/ LibClearAll

SpecLib == InitLib /\ [][NextLib]_vars

\* this step is the return of a call of fn
Returns(fn) == now' # now /\ libcall'.fn = fn

\* the lock file the call is about
CallPath(c) == getLockPath(c.args.project, LibDir, c.args.phase, shortHashOf(head))

\* the artifact the archive call of this step has written
Artifact == CHOOSE f \in audit' : f.file = libcall'.result.archivePath

\* the lock archived in this step was stamped by the call before, with a list
StampedJustBefore ==
  /\ libcall.fn = "releaseLock"
  /\ libcall.result.released
  /\ libcall.args.project = libcall'.args.project
  /\ libcall.args.phase = libcall'.args.phase

\* the lines of a lock or artifact have the line k=v
HasField(content, k, v) == \E i \in DOMAIN content : content[i] = Line(k, v)

\* the lines of a lock or artifact say the runner at index i (from 0) has the
\* name, the pass flag and the duration of r
HasRunner(content, i, r) ==
  /\ HasField(content, "RUNNER_" \o ToString(i) \o "_NAME", r.name)
  /\ HasField(content, "RUNNER_" \o ToString(i) \o "_PASSED", <<r.passed>>)
  /\ HasField(content, "RUNNER_" \o ToString(i) \o "_DURATION", <<r.duration, "ms">>)

\* archiving an existing lock copies it to the audit directory and removes it;
\* archiving without a lock changes nothing
ArchiveMoves ==
  IF CallPath(libcall') \in DOMAIN files
  THEN /\ libcall'.result.archived
       /\ CallPath(libcall') \notin DOMAIN files'
       /\ \E f \in audit' : f.file = libcall'.result.archivePath
       /\ Artifact.body = files[CallPath(libcall')]
  ELSE /\ ~libcall'.result.archived
       /\ files' = files /\ audit' = audit /\ proofs' = proofs

C23_Step ==
  Returns("archiveLock") =>
     /\ ArchiveMoves
     /\ (CallPath(libcall') \in DOMAIN files /\ StampedJustBefore) =>
           LET rs == libcall.args.results
           IN /\ HasField(Artifact.body, "RUNNERS_COUNT", <<Len(rs)>>)
              /\ \A i \in DOMAIN rs : HasRunner(Artifact.body, i - 1, rs[i])

C23_StepNonEmpty ==
  Returns("archiveLock") =>
     /\ ArchiveMoves
     /\ (CallPath(libcall') \in DOMAIN files /\ StampedJustBefore) =>
           LET rs == libcall.args.results
           IN /\ rs # <<>> => HasField(Artifact.body, "RUNNERS_COUNT", <<Len(rs)>>)
              /\ \A i \in DOMAIN rs : HasRunner(Artifact.body, i - 1, rs[i])
              /\ HasField(Artifact.body, "STATUS", <<"VALIDATED">>)

----------------------------------------------------------------------------
(* A phase without runners *)

C24_Step ==
  (/\ SelfRunStep
   /\ Pending(files, StepPath)
   /\ phaseRunners(Cfg._runners, last'.topic) = <<>>) =>
     /\ last'.results = <<>>
     /\ last'.msg = "selfrun-released"
     /\ last'.code = 0
     /\ Validated(files', StepPath)
     /\ HasField(files'[StepPath], "STATUS", <<"VALIDATED">>)

\* C24: a self-run release of a PENDING lock whose phase has no runner succeeds:
\* the result list is empty, the lock is stamped VALIDATED and the exit code is 0.
C24_EmptyPhaseReleases == [][C24_Step]_vars

\* a self-run release without runners has just stamped a pending lock
C24_Witness ==
  /\ last.cmd = "release"
  /\ last.given
  /\ last.proof = <<>>
  /\ last.pre = "pending"
  /\ last.results = <<>>
  /\ last.code = 0
  /\ phaseRunners(Cfg._runners, last.topic) = <<>>
  /\ Validated(files, LockPath(last.topic))

----------------------------------------------------------------------------
(* The lock directory *)

\* a command has settled its lock directory
DirResolved == libcall.fn = "lockDir" /\ libcall.done

\* the directory the configured value stands for
ConfiguredDir ==
  IF config.lockDir = "local" THEN cwd.path \o "/.agent-lease/locks"
  ELSE IF config.lockDir \in {"", "auto", "xdg"}
  THEN (IF env["XDG_RUNTIME_DIR"] # "" THEN env["XDG_RUNTIME_DIR"] \o "/agent-lease" ELSE "/tmp")
  ELSE config.lockDir

\* the directory by the documented priority: the environment variable, then
\* the flag, then the configured value
DocumentedDir(flag) ==
  IF env["AGENT_LEASE_LOCK_DIR"] # "" THEN env["AGENT_LEASE_LOCK_DIR"]
  ELSE IF flag # "" THEN flag
  ELSE ConfiguredDir

\* C25: check, release, status and clear choose the lock directory by the
\* documented priority: AGENT_LEASE_LOCK_DIR, then --lock-dir, then the
\* configured value, with /tmp as the fallback.
C25_LockDirPriority ==
  DirResolved => libcall.result = DocumentedDir(libcall.args.flag)

\* C25 for commands given no --lock-dir flag
C25_NoFlag ==
  (DirResolved /\ libcall.args.flag = "") => libcall.result = DocumentedDir("")

----------------------------------------------------------------------------
(* Creating a lock that exists *)

C26_Step ==
  (Returns("createLock") /\ CallPath(libcall') \in DOMAIN files) =>
     files'[CallPath(libcall')] = files[CallPath(libcall')]

\* C26: createLock for a key that has a lock leaves the existing record as it
\* is: its token, creation time, status, marker and runner fields.
C26_CreateKeepsExistingLock == [][C26_Step]_vars

C26_GateStep ==
  (CheckStep /\ StepPath \in DOMAIN files) => files' = files

\* C26 for the gate: a check of a topic that has a lock leaves every lock as it is
C26_GateKeepsExistingLock == [][C26_GateStep]_vars

----------------------------------------------------------------------------
(* Stamping without a lock *)

C27_Step ==
  (Returns("releaseLock") /\ CallPath(libcall') \notin DOMAIN files) =>
     /\ ~libcall'.result.released
     /\ libcall'.result.reason = "No lock found"
     /\ files' = files
     /\ proofs' = proofs
     /\ audit' = audit

\* C27: releaseLock for a key without a lock returns released = false with the
\* reason that no lock was found, creates no lock file and writes no proof
\* artifact.
C27_StampWithoutLockFails == [][C27_Step]_vars

\* a stamp with two results has been refused for want of a lock, nothing written
C27_Witness ==
  /\ libcall.fn = "releaseLock"
  /\ ~libcall.result.released
  /\ libcall.args.results # <<>>
  /\ CallPath(libcall) \notin DOMAIN files
  /\ proofs = {}

----------------------------------------------------------------------------
(* Clearing locks *)

\* the lock files of the project, of the phase when one is given, by what
\* createLock wrote in them
LocksOf(fs, pr, ph) ==
  {q \in DOMAIN fs : /\ HasField(fs[q], "PROJECT", pr)
                     /\ ph # "" => HasField(fs[q], "PHASE", <<ph>>)}

\* the call removes these lock files, no other, and returns their number
Clears(locks) ==
  /\ DOMAIN files' = DOMAIN files \ locks
  /\ \A q \in DOMAIN files' : files'[q] = files[q]
  /\ libcall'.result.cleared = Cardinality(locks)

C28_Step ==
  Returns("clearAllLocks") =>
     Clears(LocksOf(files, libcall'.args.project, libcall'.args.phase))

\* C28: clearAllLocks removes exactly the lock files of the given project (and of
\* the given topic when one is given), never a lock of another project or topic,
\* and returns the number of locks removed.
C28_ClearRemovesOwnLocksOnly == [][C28_Step]_vars

C28_StepOwnNames ==
  (/\ Returns("clearAllLocks")
   /\ libcall'.args.project = <<"p", "-", "q">>
   /\ libcall'.args.phase \in {"", "commit", "push"}) =>
     Clears(LocksOf(files, libcall'.args.project, libcall'.args.phase))

\* C28 for a project whose name starts no other project's name, and for no
\* phase or a trigger phase
C28_OwnNames == [][C28_StepOwnNames]_vars

----------------------------------------------------------------------------
(* Process outcomes *)

\* the process ran to a normal exit with status zero
ExitedZero(o) == ~o.threw /\ o.status = 0

----------------------------------------------------------------------------
(* Large diffs *)

\* executeRunner has reached the spawn
Spawned == libcall.fn = "spawn" /\ libcall.done

\* the diff of the call's phase
DiffOf(a) == IF a.phase = "push" THEN a.context.diffPush ELSE a.context.diff

\* the diff does not go inline: the template names it and it is longer than
\* 100,000 characters
ByStdin(a) == "{{diff}}" \in Range(a.template) /\ Size(DiffOf(a)) > 100000

\* the template with every diff placeholder replaced by the marker and every
\* other recognised placeholder by its value
ExpectedByStdin(a) ==
  Flatten([i \in DOMAIN a.template |->
             IF a.template[i] = "{{diff}}" THEN <<"$(cat)">>
             ELSE IF a.template[i] \in Recognised("expandCommand")
             THEN ContextValue("expandCommand", a, a.template[i])
             ELSE <<a.template[i]>>])

\* C30: when the template names the diff and the diff is longer than 100,000
\* characters, the command run is the template with every diff placeholder
\* replaced by the standard-input marker and every other placeholder expanded
\* as inline, and the diff is the input; otherwise the diff is inline and
\* nothing is sent on standard input.
C30_LargeDiffByStdin ==
  Spawned =>
     LET a == libcall.args
     IN IF ByStdin(a)
        THEN /\ libcall.result.command = ExpectedByStdin(a)
             /\ libcall.result.hasInput
             /\ libcall.result.input = DiffOf(a)
        ELSE /\ libcall.result.command = Expected("expandCommand", a)
             /\ ~libcall.result.hasInput

\* C30 for templates whose only recognised placeholder is the diff
C30_DiffOnly ==
  (Spawned /\ \A i \in DOMAIN libcall.args.template :
                 libcall.args.template[i] \notin Recognised("expandCommand") \ {"{{diff}}"}) =>
     LET a == libcall.args
     IN IF ByStdin(a)
        THEN /\ libcall.result.command = ExpectedByStdin(a)
             /\ libcall.result.hasInput
             /\ libcall.result.input = DiffOf(a)
        ELSE /\ libcall.result.command = Expected("expandCommand", a)
             /\ ~libcall.result.hasInput

----------------------------------------------------------------------------
(* The runners a release requires, by mode *)

\* the names of the runners of a list of runners or of results
NamesOf(rs) == {rs[i].name : i \in DOMAIN rs}

\* a self-run release has run its runners to the end and stamped the lock
SelfRunReleased ==
  last.cmd = "release" /\ last.given /\ last.proof = <<>> /\ last.msg = "selfrun-released"

\* C31: for every configuration (explicit topic mapping or legacy trigger
\* phase) and every topic, the runners a self-run release of the topic executes
\* are the runners a submitted proof must cover for the topic.
C31_SameRequiredRunners ==
  SelfRunReleased =>
     NamesOf(last.results) = NamesOf(getRunnersForTopic(Cfg, TopicOfOutcome(last)))

\* C31 for the configurations written with trigger phases only
C31_LegacyConfigs ==
  (SelfRunReleased /\ ~config.hasTopics) =>
     NamesOf(last.results) = NamesOf(getRunnersForTopic(Cfg, TopicOfOutcome(last)))

----------------------------------------------------------------------------
(* Runner names after normalisation *)

\* normalizeRunners has returned
Normalized == libcall.fn = "normalizeRunners" /\ libcall.done

\* no two runners of the list have the same name
UniqueNames(rs) == \A i, j \in DOMAIN rs : i # j => rs[i].name # rs[j].name

\* C32: the normalised runner list never contains two runners with the same
\* name, whichever source it was built from (runners array, topics mapping,
\* legacy validation object or the environment override).
C32_NormalisedNamesUnique == Normalized => UniqueNames(libcall.result)

\* C32 for the lists built from the topics object, the validation object or
\* the built-in runners
C32_TopicsAndValidation ==
  (Normalized /\ libcall.args.value = <<>> /\ ~libcall.args.config.hasRunners) =>
     UniqueNames(libcall.result)

----------------------------------------------------------------------------
(* Concurrent invocations. Two processes run the gate check of one topic and  *)
(* the self-run release of its phase, each at its own pace: a step is what    *)
(* one process does up to and including its next operation on the lock        *)
(* directory or the proof directory. The clock ticks when an invocation       *)
(* starts.                                                                    *)

\* number of invocations started in a behaviour of SpecRace
MaxInvocations == 3

Procs == {1, 2}

\* the topic the processes check and the phase they release
RaceTopic == "pre-commit"
RacePhase == "commit"

\* the configs of SpecRace: one runner per trigger phase, and a topics mapping
\* that names for pre-commit a runner triggered on push
RaceConfigs ==
  { Config(<<Runner(NameA, "commit", FALSE), Runner(NameB, "push", FALSE)>>, FALSE, NoTopics),
    Config(<<Runner(NameA, "commit", FALSE), Runner(NameB, "push", FALSE)>>, TRUE,
           [t \in {"pre-commit"} |-> <<NameA, NameB>>]) }

\* the outcomes of the runner processes: exit 0 or exit 1
RaceOutcomes ==
  [threw : {FALSE}, status : {0, 1}, output : {"VERDICT: PASS"}, duration : Durations]

\* Math.random() of a process: the draws of two processes differ
RandomOf(p) == "r" \o ToString(p)

\* a process: the command it runs (or ran last), where it stands in it, the
\* time, the lock content and the runner results it holds, and the outcome of
\* the invocation it finished last
Proc(cmd, pc, t, content, results, out) ==
  [cmd |-> cmd, pc |-> pc, t |-> t, content |-> content, results |-> results, out |-> out]

\* a process that has not run anything
Fresh == Proc("none", "idle", 0, <<>>, <<>>, NoOutcome)

InitRace ==
  /\ files = NoFiles
  /\ proofs = {}
  /\ audit = {}
  /\ last = NoOutcome
  /\ now = 0
  /\ head = 0
  /\ config \in RaceConfigs
  /\ cwd = MainRoot
  /\ env = NoEnv
  /\ libcall = NoCall
  /\ running = [p \in Procs |-> Fresh]

\* the lock file of the raced topic
RacePath == LockPath(RacePhase)

\* the lock directory as a process that found content at RacePath holds it
Held(content) == [q \in {RacePath} |-> content]

\* a write that leaves a file that is already there as it is
Written_keepsFirst(content) ==
  [q \in DOMAIN files \cup {RacePath} |-> IF q \in DOMAIN files THEN files[q] ELSE content]

\* the lock directory after a process has written content to RacePath
Written(content) ==
  [q \in DOMAIN files \cup {RacePath} |-> IF q = RacePath THEN content ELSE files[q]]

\* process p has finished its invocation with outcome out
Exits(p, cmd, out) ==
  /\ running' = [running EXCEPT ![p] = Proc(cmd, "idle", 0, <<>>, <<>>, out)]
  /\ last' = out

\* process p goes on to the step pc
Continues(p, cmd, pc, t, content, results) ==
  /\ running' = [running EXCEPT ![p] = Proc(cmd, pc, t, content, results, running[p].out)]
  /\ UNCHANGED last

\* lease <topic> starts: checkLock; with a lock the handler exits (0 on a
\* validated lock, 1 on a pending one), without one it goes on to createLock
GateTest(p) ==
  /\ running[p].pc = "idle"
  /\ now < MaxInvocations
  /\ now' = now + 1
  /\ IF checkLock(files, Cfg.projectName, Cfg.lockDir, RacePhase, shortHashOf(head)).exists
     THEN Exits(p, "lease", cmd_lease(files, proofs, Cfg, RaceTopic, <<>>, shortHashOf(head),
                                      <<now, RandomOf(p)>>, now).out)
     ELSE Continues(p, "lease", "create", 0, <<>>, <<>>)
  /\ UNCHANGED <<files, proofs, audit, head, config, cwd, env, libcall>>

\* lease <topic> writes the lock it did not find, prints the gate and exits 1
GateCreate(p) ==
  /\ running[p].pc = "create"
  /\ LET e == cmd_lease(NoFiles, proofs, Cfg, RaceTopic, <<>>, shortHashOf(head),
                        <<now, RandomOf(p)>>, now)
     IN /\ files' = Written(e.fs[RacePath])
        /\ Exits(p, "lease", e.out)
  /\ UNCHANGED <<proofs, audit, now, head, config, cwd, env, libcall>>

\* release --audit-proof starts: checkLock, then the runners of the phase; the
\* handler exits without a lock, on a validated lock and on a failed runner,
\* else it goes on to releaseLock
ReleaseTest(p) ==
  /\ running[p].pc = "idle"
  /\ now < MaxInvocations
  /\ now' = now + 1
  /\ LET pre == preOf(checkLock(files, Cfg.projectName, Cfg.lockDir, RacePhase, shortHashOf(head)))
         n == IF pre = "pending" THEN Len(phaseRunners(Cfg._runners, RacePhase)) ELSE 0
     IN \E outs \in [1..n -> RaceOutcomes] :
          LET run == runRunners(Cfg._runners, RacePhase, outs)
          IN IF pre = "pending" /\ run.allPassed
             THEN Continues(p, "release", "read", 0, <<>>, run.results)
             ELSE Exits(p, "release", cmd_release(files, proofs, Cfg, TRUE, <<>>, RacePhase, outs,
                                                  shortHashOf(head), now).out)
  /\ UNCHANGED <<files, proofs, audit, head, config, cwd, env, libcall>>

\* releaseLock reads the lock file; when it is gone nothing is written and the
\* handler reports the release all the same
ReleaseRead(p) ==
  /\ running[p].pc = "read"
  /\ IF RacePath \notin DOMAIN files
     THEN Exits(p, "release", Outcome("release", RacePhase, TRUE, <<>>, "pending", 0,
                                      "selfrun-released", <<>>, running[p].results, FALSE))
     ELSE Continues(p, "release",
                    IF proofFiles(running[p].results, RacePhase, shortHashOf(head), now) # {}
                    THEN "artifacts" ELSE "write",
                    now, files[RacePath], running[p].results)
  /\ UNCHANGED <<files, proofs, audit, now, head, config, cwd, env, libcall>>

\* releaseLock writes the proof files
ReleaseArtifacts(p) ==
  /\ running[p].pc = "artifacts"
  /\ proofs' = releaseLock(Held(running[p].content), proofs, Cfg.projectName, Cfg.lockDir,
                           running[p].results, RacePhase, shortHashOf(head), running[p].t).pf
  /\ Continues(p, "release", "write", running[p].t, running[p].content, running[p].results)
  /\ UNCHANGED <<files, audit, now, head, config, cwd, env, libcall>>

\* releaseLock writes the lock file: the content it read and the stamp
ReleaseWrite(p) ==
  /\ running[p].pc = "write"
  /\ files' = Written(releaseLock(Held(running[p].content), proofs, Cfg.projectName, Cfg.lockDir,
                                  running[p].results, RacePhase, shortHashOf(head),
                                  running[p].t).fs[RacePath])
  /\ Exits(p, "release", Outcome("release", RacePhase, TRUE, <<>>, "pending", 0,
                                 "selfrun-released", <<>>, running[p].results, FALSE))
  /\ UNCHANGED <<proofs, audit, now, head, config, cwd, env, libcall>>

\* a process is killed between two of its steps
Kill(p) ==
  /\ running[p].pc # "idle"
  /\ running' = [running EXCEPT ![p] = Proc("killed", "idle", 0, <<>>, <<>>, running[p].out)]
  /\ UNCHANGED <<files, proofs, audit, last, now, head, config, cwd, env, libcall>>

NextRace ==
  \/ \E p \in Procs : GateTest(p)
  \/ \E p \in Procs : GateCreate(p)
  \/ \E p \in Procs : ReleaseTest(p)
  \/ \E p \in Procs : ReleaseRead(p)
  \/ \E p \in Procs : ReleaseArtifacts(p)
  \/ \E p \in Procs : ReleaseWrite(p)
  \/ \E p \in Procs : Kill(p)

SpecRace == InitRace /\ [][NextRace]_vars

----------------------------------------------------------------------------
(* Two checks racing from UNLOCKED *)

\* each process has run one gate check to its end and nothing else has run
TwoChecksDone ==
  /\ now = 2
  /\ \A p \in Procs : running[p].cmd = "lease" /\ running[p].pc = "idle"

\* only gate checks have been started
ChecksOnly == \A p \in Procs : running[p].cmd \in {"none", "lease"}

\* this step is the lock write of the check of process p
CreateBy(p) ==
  running[p].pc = "create" /\ running'[p].pc = "idle" /\ running'[p].cmd = "lease"

\* the creation tokens a lock file holds
TokensOf(content) == {content[i].v : i \in {j \in DOMAIN content : content[j].k = "LOCK_GUID"}}

\* while only checks run, the lock file changes only by the write of a check,
\* and after the write of a check it holds the token of that check and nothing
\* of an earlier write
C33_Step ==
  ChecksOnly =>
     /\ files' # files => \E p \in Procs : CreateBy(p)
     /\ \A p \in Procs :
           CreateBy(p) =>
              /\ DOMAIN files' = {RacePath}
              /\ Len(files'[RacePath]) = 5
              /\ TokensOf(files'[RacePath]) = {<<now, RandomOf(p)>>}

\* when both checks have returned there is one lock file, it is PENDING and
\* both checks were blocked
C33_End ==
  TwoChecksDone =>
     /\ DOMAIN files = {RacePath}
     /\ Pending(files, RacePath)
     /\ \A p \in Procs : running[p].out.code # 0 /\ running[p].out.msg = "deny"

\* C33: when two checks of a topic race from UNLOCKED, every interleaving of
\* their existence tests and lock writes ends with exactly one lock file for
\* the topic, PENDING and holding the creation token of the last writer, and
\* both checks return a blocking result.
C33_RacingChecksLeaveOnePendingLock == []C33_End /\ [][C33_Step]_vars

\* both checks found no lock, both wrote, and the lock holds the token of
\* process 1, which was started last and wrote last
C33_Witness ==
  /\ TwoChecksDone
  /\ \A p \in Procs : running[p].out.pre = "none"
  /\ TokensOf(files[RacePath]) = {<<2, RandomOf(1)>>}

----------------------------------------------------------------------------
(* Project names. The steps of SpecRace, for projects whose name is an        *)
(* ordinary word and for a project named after the text of the stamp.         *)

NameConfigs ==
  {[Config(<<Runner(NameA, "commit", FALSE)>>, FALSE, NoTopics) EXCEPT !.projectName = n] :
     n \in {<<"p">>, <<MARKER>>, <<"my", "-", MARKER>>}}

InitNames ==
  /\ files = NoFiles
  /\ proofs = {}
  /\ audit = {}
  /\ last = NoOutcome
  /\ now = 0
  /\ head = 0
  /\ config \in NameConfigs
  /\ cwd = MainRoot
  /\ env = NoEnv
  /\ libcall = NoCall
  /\ running = [p \in Procs |-> Fresh]

SpecNames == InitNames /\ [][NextRace]_vars

\* what checkLock reports as auditPassed for the lock of the topic
ReadsValidated(fs) ==
  checkLock(fs, Cfg.projectName, Cfg.lockDir, RacePhase, shortHashOf(head)).auditPassed

\* this step is the lock write that completes the stamp of process p
StampBy(p) ==
  running[p].pc = "write" /\ running'[p].pc = "idle" /\ running'[p].cmd = "release"

\* this step ends a check of process p with exit code 0
AllowedBy(p) ==
  /\ running[p].pc = "idle"
  /\ running'[p].pc = "idle"
  /\ running'[p].cmd = "lease"
  /\ now' = now + 1
  /\ running'[p].out.code = 0

\* a lock starts to read as validated only at the lock write of a stamp, and a
\* check is allowed only on a lock that reads as validated
C34_Step ==
  /\ (ReadsValidated(files') /\ ~ReadsValidated(files)) => \E p \in Procs : StampBy(p)
  /\ \A p \in Procs : AllowedBy(p) => ReadsValidated(files)

\* C34: a lock reads as validated if and only if a stamp completed on it: for
\* every project name, a lock that has been created but not stamped (also after
\* a crash between create and stamp, or during a stamp that has written its
\* proof files and not yet the lock file) is reported with auditPassed false
\* and a check on it is blocked.
C34_ValidatedIffStamped == [][C34_Step]_vars

----------------------------------------------------------------------------
(* What a validated lock records *)

\* the pass flags a lock file records, by runner name
Recorded(content) ==
  {<<content[ij[1]].v, content[ij[2]].v>> :
     ij \in {ab \in (DOMAIN content) \X (DOMAIN content) :
               \E n \in 0..Len(content) :
                  /\ content[ab[1]].k = "RUNNER_" \o ToString(n) \o "_NAME"
                  /\ content[ab[2]].k = "RUNNER_" \o ToString(n) \o "_PASSED"}}

\* C35: a lock is VALIDATED only when every runner required for its topic has
\* a passing result (in proof mode a parsed record with status PASS, in
\* self-run mode an execution that passed), and every runner pass flag
\* recorded in a VALIDATED lock is true.
C35_ValidatedOnlyWhenAllRequiredPassed ==
  Validated(files, RacePath) =>
     /\ \A r \in Range(getRunnersForTopic(Cfg, RaceTopic)) :
           <<r.name, <<TRUE>>>> \in Recorded(files[RacePath])
     /\ \A rec \in Recorded(files[RacePath]) : rec[2] = <<TRUE>>

\* C35 with the runners of the phase as the required ones
C35_PhaseRunnersPassed ==
  Validated(files, RacePath) =>
     /\ \A r \in Range(phaseRunners(Cfg._runners, RacePhase)) :
           <<r.name, <<TRUE>>>> \in Recorded(files[RacePath])
     /\ \A rec \in Recorded(files[RacePath]) : rec[2] = <<TRUE>>

\* a proof is accepted only when its records cover the required runners with
\* the status PASS
C35_AcceptedProofAllPass ==
  (last.given /\ last.proof # <<>> /\ last.msg = "accepted") =>
     CompleteAllPass(RequiredOf(last), last.proof)

----------------------------------------------------------------------------
(* Where a lock is *)

\* getLockPath has returned for both keys
Located == libcall.fn = "getLockPath" /\ libcall.done

\* C36: the lock location is deterministic and injective on its key: equal
\* (lock directory, project, topic, revision) give the same path, and two keys
\* that differ in project name or in topic never give the same path at the
\* same revision, also for names that contain hyphens or the word push.
C36_LockPathInjective ==
  Located =>
     LET a == libcall.args.a
         b == libcall.args.b
     IN /\ a = b => libcall.result.a = libcall.result.b
        /\ (a.revision = b.revision /\ (a.project # b.project \/ a.topic # b.topic)) =>
              libcall.result.a # libcall.result.b

\* C36 for the git-hook topics of projects whose name has no hyphen
C36_HookTopicsPlainNames ==
  (Located /\ \A k \in {libcall.args.a, libcall.args.b} :
                 k.topic \in {"pre-commit", "pre-push"} /\ "-" \notin Range(k.project)) =>
     LET a == libcall.args.a
         b == libcall.args.b
     IN /\ a = b => libcall.result.a = libcall.result.b
        /\ (a.revision = b.revision /\ (a.project # b.project \/ a.topic # b.topic)) =>
              libcall.result.a # libcall.result.b

----------------------------------------------------------------------------
(* Inserted text that reads as a placeholder *)

\* the patterns a replacement string gives a meaning to
DollarPatterns == {"$$", "$&", "$'", DollarBefore}

\* no value of the call's context carries a dollar pattern
DollarFree(a) ==
  \A f \in DOMAIN a.context : \A i \in DOMAIN a.context[f] : a.context[f][i] \notin DollarPatterns

\* C37: expansion is single-pass: the text a placeholder is replaced by (a
\* diff or a branch name that itself contains placeholder syntax) is emitted
\* as it is and is not expanded again, so the output is the template with each
\* of its own placeholders replaced by its value, whatever the order of the
\* substitutions.
C37_SinglePassExpansion ==
  (Expanded /\ DollarFree(libcall.args)) => libcall.result = Expected(libcall.fn, libcall.args)

----------------------------------------------------------------------------
(* A validated lock under concurrent checks and releases *)

\* the stamps a lock file holds
Markers(content) == {i \in DOMAIN content : content[i].k = MARKER}

\* a validated lock stays, validated and with its one stamp
C38_Step ==
  Validated(files, RacePath) =>
     /\ Validated(files', RacePath)
     /\ Cardinality(Markers(files'[RacePath])) = 1

\* C38: under every interleaving of concurrent checks and releases of a
\* topic, once the lock has been stamped VALIDATED it is not overwritten back
\* to PENDING and does not acquire a second validated marker (no archive and
\* no clear runs here).
C38_ValidatedLockKept == [][C38_Step]_vars

====
